---- MODULE Spec2Model ----
(***************************************************************************)
(* Ownership, lifecycle and render-order kernel of unreal-pixijs: Game,    *)
(* Level, Actor and Widget, with scripts and the WidgetButton and         *)
(* WidgetInput starter widgets.  Objects are identified by small integers; *)
(* each method of the source is an operator from a program state (a record *)
(* of every field) to the program state after the call, and each action    *)
(* of the specification is one call made by user code.                     *)
(***************************************************************************)
EXTENDS Integers, Sequences, FiniteSets, TLC

\* ------------------------------------------------------------------ bounds
NumActors == 2
NumWidgets == 3
NumLevels == 2
\* how many actors a level's onLoad() adds at most
MaxOnLoad == 1
\* how many widgets the render-order specification builds
NumZWidgets == 2
\* longest registry the specification without the caller contract grows
MaxMembers == 2
\* how many widgets that specification hands around
NumAnyWidgets == 1
\* how many scripts an actor is given at most
MaxScripts == 2
\* how many widgets the specification of classes and ticks adds at top level
NumQWidgets == 3
\* how many characters the value of the text input grows to at most
MaxValueLen == 3
\* how far the held damage of the health script goes, either side of zero
MaxHeldDamage == 100
\* the largest denominator of a health or held damage the runs go to
MaxDenominator == 5

Actors == 1..NumActors
Widgets == 1..NumWidgets
Levels == 1..NumLevels

\* zOrder values handed to constructors and to setZOrder
ZOrders == {-1, 0, 2}
\* zOrders handed to the actors the caller builds; the actors a level's
\* onLoad() builds keep the 0 they start with
ActorZOrders == {-1, 2}

\* ------------------------------------------------------------ value encodings
\* "undefined" for a Level | undefined or Widget | undefined reference
Undefined == 0
\* the left padding of the text inside a WidgetInput
LeftPadding == 5
\* the number -Infinity: smaller than every zOrder, absorbing under addition
NegInfinity == -1000000

Plus(x, y) == IF x = NegInfinity \/ y = NegInfinity THEN NegInfinity ELSE x + y
IsFinite(x) == x # NegInfinity

\* Array.prototype.includes and the filter((x) => x !== e) idiom
Includes(q, e) == \E i \in 1..Len(q) : q[i] = e
Without(q, e) == SelectSeq(q, LAMBDA x : x # e)
Range(q) == {q[i] : i \in 1..Len(q)}

\* -------------------------------------------------------------------- state
VARIABLES
    level,              \* Game.level
    persistantActors,   \* Game.persistantActors
    persistantWidgets,  \* Game.persistantWidgets
    actors,             \* Level.actors, per level object
    widgets,            \* Level.widgets, per level object
    actorLevel,         \* Actor.level
    persistantActor,    \* Actor.persistantActor
    actorZOrder,        \* Actor.zOrder
    actorZIndex,        \* Actor.zIndex (Container)
    widgetLevel,        \* Widget.level
    owningWidget,       \* Widget.owningWidget
    subWidgets,         \* Widget.subWidgets
    isPersistant,       \* Widget.isPersistant
    widgetZOrder,       \* Widget.zOrder
    widgetZIndex,       \* Widget.zIndex (Container)
    stage,              \* children of game.app.stage
    actorLife,          \* history: "new", "live" (onCreate ran), "removed" (onRemove ran)
    backgroundColour,   \* Game.backgroundColour
    actorClass,         \* the class an actor was built from
    widgetClass,        \* the class a widget was built from
    actorScripts,       \* Actor.scripts: each script's class and isEnabled
    widgetLife,         \* history: "new", "live" (onConstruct ran), "removed" (onDeconstruct ran)
    mousePos,           \* Game.mousePos
    mouseDown,          \* Game.mouseDown, button e.button at position e.button + 1
    button,             \* the fields of a WidgetButton
    input,              \* the fields of a WidgetInput
    lastFired,          \* history: which of the button's clickFunction and
                        \* releasedFunction was called last, "none" before any
    onUpdate,           \* what the update() override of each actor's class
                        \* does after super.update()
    healthScript        \* the fields of a HealthScript

vars == <<level, persistantActors, persistantWidgets, actors, widgets,
          actorLevel, persistantActor, actorZOrder, actorZIndex,
          widgetLevel, owningWidget, subWidgets, isPersistant, widgetZOrder,
          widgetZIndex, stage, actorLife, widgetLife, backgroundColour,
          actorClass, widgetClass, actorScripts, mousePos, mouseDown,
          button, input, lastFired, onUpdate, healthScript>>

\* The program state as one record, with the trace of the call in progress:
\* hooks (the lifecycle hooks it has run, in order), seen (the registries as
\* each hook found them), updates (the update calls made), atUpdate (for
\* each Actor.update call, whether the actor was in a registry), calls (the
\* callbacks of a button or an input called) and retBool / retRef / retList
\* (its return value).
Cur ==
    [level |-> level, persistantActors |-> persistantActors,
     persistantWidgets |-> persistantWidgets, actors |-> actors,
     widgets |-> widgets, actorLevel |-> actorLevel,
     persistantActor |-> persistantActor, actorZOrder |-> actorZOrder,
     actorZIndex |-> actorZIndex, widgetLevel |-> widgetLevel,
     owningWidget |-> owningWidget, subWidgets |-> subWidgets,
     isPersistant |-> isPersistant, widgetZOrder |-> widgetZOrder,
     widgetZIndex |-> widgetZIndex, stage |-> stage, actorLife |-> actorLife,
     widgetLife |-> widgetLife, backgroundColour |-> backgroundColour,
     actorClass |-> actorClass, widgetClass |-> widgetClass,
     actorScripts |-> actorScripts, mousePos |-> mousePos,
     mouseDown |-> mouseDown, button |-> button, input |-> input,
     lastFired |-> lastFired, onUpdate |-> onUpdate,
     healthScript |-> healthScript,
     hooks |-> <<>>, seen |-> <<>>, updates |-> <<>>, atUpdate |-> <<>>,
     calls |-> <<>>,
     retBool |-> FALSE, retRef |-> Undefined, retList |-> <<>>]

\* what code running inside a hook can read of the registries at that moment
Observe(s) ==
    [level |-> s.level, persistantActors |-> s.persistantActors,
     persistantWidgets |-> s.persistantWidgets, actors |-> s.actors,
     widgets |-> s.widgets, subWidgets |-> s.subWidgets,
     backgroundColour |-> s.backgroundColour]

\* ------------------------------------------------------------------- Actor
\* new SomeActor(game, x, y, zOrder)
NewActor(s, a, z) == [s EXCEPT !.actorZOrder[a] = z]

\* onCreate() that leaves the persistantActor flag as constructed
OnCreate_FlagUntouched(s, a, isPersistantArg, levelReference) ==
    [s EXCEPT !.stage = @ \cup {<<"actor", a>>},
              !.actorLevel[a] = IF ~isPersistantArg THEN levelReference ELSE @,
              !.actorLife[a] = "live",
              !.hooks = Append(@, <<"onCreate", a>>),
              !.seen = Append(@, Observe(s))]

OnCreate(s, a, isPersistantArg, levelReference) ==
    [s EXCEPT !.stage = @ \cup {<<"actor", a>>},
              !.actorLevel[a] = IF ~isPersistantArg THEN levelReference ELSE @,
              !.persistantActor[a] = isPersistantArg,
              !.actorLife[a] = "live",
              !.hooks = Append(@, <<"onCreate", a>>),
              !.seen = Append(@, Observe(s))]

\* onRemove() that leaves the actor on the stage
OnRemove_KeepsChild(s, a) ==
    [s EXCEPT !.actorLife[a] = "removed",
              !.hooks = Append(@, <<"onRemove", a>>),
              !.seen = Append(@, Observe(s))]

OnRemove(s, a) ==
    [s EXCEPT !.stage = @ \ {<<"actor", a>>},
              !.actorLife[a] = "removed",
              !.hooks = Append(@, <<"onRemove", a>>),
              !.seen = Append(@, Observe(s))]

\* ---------------------------------------------------- Game.adjustZIndexes
RECURSIVE HighestZOrder(_, _, _)
\* the running maximum of the two actor loops
HighestZOrder(s, q, highest) ==
    IF q = <<>> THEN highest
    ELSE HighestZOrder(s, Tail(q),
             IF s.actorZOrder[Head(q)] > highest THEN s.actorZOrder[Head(q)]
             ELSE highest)

LevelActorsOf(s) == IF s.level # Undefined THEN s.actors[s.level] ELSE <<>>
LevelWidgetsOf(s) == IF s.level # Undefined THEN s.widgets[s.level] ELSE <<>>

\* adjustZIndexes() without the "highestZIndex += 1" between the loops
AdjustZIndexes_NoStep(s) ==
    LET h1 == HighestZOrder(s, s.persistantActors, NegInfinity)
        h2 == HighestZOrder(s, LevelActorsOf(s), h1)
        scannedActors == Range(s.persistantActors) \cup Range(LevelActorsOf(s))
        scannedWidgets == Range(s.persistantWidgets) \cup Range(LevelWidgetsOf(s))
    IN  [s EXCEPT
            !.actorZIndex = [a \in Actors |->
                IF a \in scannedActors THEN s.actorZOrder[a] ELSE @[a]],
            !.widgetZIndex = [w \in Widgets |->
                IF w \in scannedWidgets THEN Plus(h2, s.widgetZOrder[w])
                ELSE @[w]]]

\* adjustZIndexes() whose level loop starts its maximum afresh
AdjustZIndexes_LevelMaxOnly(s) ==
    LET h2 == HighestZOrder(s, LevelActorsOf(s), NegInfinity)
        highestZIndex == Plus(h2, 1)
        scannedActors == Range(s.persistantActors) \cup Range(LevelActorsOf(s))
        scannedWidgets == Range(s.persistantWidgets) \cup Range(LevelWidgetsOf(s))
    IN  [s EXCEPT
            !.actorZIndex = [a \in Actors |->
                IF a \in scannedActors THEN s.actorZOrder[a] ELSE @[a]],
            !.widgetZIndex = [w \in Widgets |->
                IF w \in scannedWidgets THEN Plus(highestZIndex, s.widgetZOrder[w])
                ELSE @[w]]]

AdjustZIndexes(s) ==
    LET h1 == HighestZOrder(s, s.persistantActors, NegInfinity)
        h2 == HighestZOrder(s, LevelActorsOf(s), h1)
        highestZIndex == Plus(h2, 1)
        scannedActors == Range(s.persistantActors) \cup Range(LevelActorsOf(s))
        scannedWidgets == Range(s.persistantWidgets) \cup Range(LevelWidgetsOf(s))
    IN  [s EXCEPT
            !.actorZIndex = [a \in Actors |->
                IF a \in scannedActors THEN s.actorZOrder[a] ELSE @[a]],
            !.widgetZIndex = [w \in Widgets |->
                IF w \in scannedWidgets THEN Plus(highestZIndex, s.widgetZOrder[w])
                ELSE @[w]]]

\* ------------------------------------------------- actor registries
LevelAddActor(s, l, a) ==
    LET s1 == [s EXCEPT !.actors[l] = Append(@, a)]
        s2 == OnCreate(s1, a, FALSE, l)
    IN  [s2 EXCEPT !.retRef = a]

LevelRemoveActor(s, l, a) ==
    IF ~Includes(s.actors[l], a) THEN [s EXCEPT !.retBool = FALSE]
    ELSE LET s1 == OnRemove(s, a)
         IN  [s1 EXCEPT !.actors[l] = Without(@, a),
                        !.retBool = TRUE]

AddPersistantActor(s, a) ==
    LET s1 == [s EXCEPT !.persistantActors = Append(@, a)]
        s2 == OnCreate(s1, a, TRUE, Undefined)
        s3 == AdjustZIndexes(s2)
    IN  [s3 EXCEPT !.retRef = a]

\* removePersistantActor() that excises the actor before it runs the hook
RemovePersistantActor_FilterFirst(s, a) ==
    IF ~Includes(s.persistantActors, a) THEN [s EXCEPT !.retBool = FALSE]
    ELSE LET s1 == [s EXCEPT !.persistantActors = Without(@, a)]
             s2 == OnRemove(s1, a)
             s3 == AdjustZIndexes(s2)
         IN  [s3 EXCEPT !.retBool = TRUE]

RemovePersistantActor(s, a) ==
    IF ~Includes(s.persistantActors, a) THEN [s EXCEPT !.retBool = FALSE]
    ELSE LET s1 == OnRemove(s, a)
             s2 == [s1 EXCEPT !.persistantActors = Without(@, a)]
             s3 == AdjustZIndexes(s2)
         IN  [s3 EXCEPT !.retBool = TRUE]

ActorRemove(s, a) ==
    IF s.actorLevel[a] = Undefined \/ s.persistantActor[a]
    THEN RemovePersistantActor(s, a)
    ELSE LevelRemoveActor(s, s.actorLevel[a], a)

RECURSIVE RemoveEachActor(_, _)
\* for (const actor of <array>) actor.remove(): the loop walks the array
\* object it started on; removal replaces the field by a filtered copy
RemoveEachActor(s, q) ==
    IF q = <<>> THEN s ELSE RemoveEachActor(ActorRemove(s, Head(q)), Tail(q))

RemoveAllPersistantActors(s) ==
    AdjustZIndexes(RemoveEachActor(s, s.persistantActors))

\* ------------------------------------------------------------------ Widget
\* new SomeWidget(game, x, y, zOrder)
NewWidget(s, w, z) == [s EXCEPT !.widgetZOrder[w] = z]

OnConstruct(s, w) ==
    [s EXCEPT !.stage = @ \cup {<<"widget", w>>},
              !.widgetLife[w] = "live",
              !.hooks = Append(@, <<"onConstruct", w>>),
              !.seen = Append(@, Observe(s))]

OnDeconstruct(s, w) ==
    LET s1 == [s EXCEPT !.stage = @ \ {<<"widget", w>>},
                        !.widgetLife[w] = "removed",
                        !.hooks = Append(@, <<"onDeconstruct", w>>),
                        !.seen = Append(@, Observe(s))]
        s2 == IF s1.isPersistant[w]
              THEN [s1 EXCEPT !.persistantWidgets = Without(@, w)]
              ELSE s1
    IN  IF s2.widgetLevel[w] # Undefined
        THEN [s2 EXCEPT !.widgets[s2.widgetLevel[w]] = Without(@, w)]
        ELSE IF s2.owningWidget[w] # Undefined
             THEN [s2 EXCEPT !.subWidgets[s2.owningWidget[w]] = Without(@, w)]
             ELSE s2

\* deconstructWidget() without the loop over the sub-widgets
DeconstructWidget_NoCascade(s, w) == OnDeconstruct(s, w)

RECURSIVE DeconstructWidget(_, _)
RECURSIVE DeconstructEachWidget(_, _)
\* for (const widget of <array>) widget.deconstructWidget(), over the array
\* object the loop started on
DeconstructEachWidget(s, q) ==
    IF q = <<>> THEN s
    ELSE DeconstructEachWidget(DeconstructWidget(s, Head(q)), Tail(q))

DeconstructWidget(s, w) ==
    OnDeconstruct(DeconstructEachWidget(s, s.subWidgets[w]), w)

AddSubWidget(s, p, w) ==
    LET s1 == [s EXCEPT !.owningWidget[w] = p,
                        !.subWidgets[p] = Append(@, w)]
        s2 == OnConstruct(s1, w)
    IN  [s2 EXCEPT !.retRef = w]

\* removeSubWidget() that deconstructs before it looks at its own list
RemoveSubWidget_NoCheck(s, p, w) ==
    [DeconstructWidget(s, w) EXCEPT !.retBool = Includes(s.subWidgets[p], w)]

RemoveSubWidget(s, p, w) ==
    IF Includes(s.subWidgets[p], w)
    THEN [DeconstructWidget(s, w) EXCEPT !.retBool = TRUE]
    ELSE [s EXCEPT !.retBool = FALSE]

\* setZOrder() that only stores the value
SetZOrder_NoAdjust(s, w, newZOrder) == [s EXCEPT !.widgetZOrder[w] = newZOrder]

SetZOrder(s, w, newZOrder) ==
    AdjustZIndexes([s EXCEPT !.widgetZOrder[w] = newZOrder])

\* ------------------------------------------------- widget registries
LevelAddWidget(s, l, w) ==
    LET s1 == [s EXCEPT !.widgets[l] = Append(@, w),
                        !.widgetLevel[w] = l]
        s2 == OnConstruct(s1, w)
    IN  [s2 EXCEPT !.retRef = w]

LevelRemoveWidget(s, l, w) ==
    IF Includes(s.widgets[l], w)
    THEN [DeconstructWidget(s, w) EXCEPT !.retBool = TRUE]
    ELSE [s EXCEPT !.retBool = FALSE]

AddPersistantWidget(s, w) ==
    LET s1 == [s EXCEPT !.persistantWidgets = Append(@, w),
                        !.isPersistant[w] = TRUE]
        s2 == OnConstruct(s1, w)
        s3 == AdjustZIndexes(s2)
    IN  [s3 EXCEPT !.retRef = w]

RemovePersistantWidget(s, w) ==
    IF Includes(s.persistantWidgets, w)
    THEN [AdjustZIndexes(DeconstructWidget(s, w)) EXCEPT !.retBool = TRUE]
    ELSE [s EXCEPT !.retBool = FALSE]

RemoveAllPersistantWidgets(s) ==
    AdjustZIndexes(DeconstructEachWidget(s, s.persistantWidgets))

\* ------------------------------------------------------------ level swap
\* onUnload() that removes the widgets only
LevelOnUnload_WidgetsOnly(s, l) == DeconstructEachWidget(s, s.widgets[l])

\* onUnload() that removes the actors only
LevelOnUnload_ActorsOnly(s, l) == RemoveEachActor(s, s.actors[l])

\* onUnload() with its two loops swapped
LevelOnUnload_WidgetsFirst(s, l) ==
    LET s1 == DeconstructEachWidget(s, s.widgets[l])
    IN  RemoveEachActor(s1, s1.actors[l])

LevelOnUnload(s, l) ==
    LET s1 == RemoveEachActor(s, s.actors[l])
    IN  DeconstructEachWidget(s1, s1.widgets[l])

ChangeBackgroundColour(s, newColour) == [s EXCEPT !.backgroundColour = newColour]

\* Level1 overrides onUnload(): super.onUnload(), then the background colour
Level1OnUnload(s, l) == ChangeBackgroundColour(LevelOnUnload(s, l), "#0f0f0f")

\* the level objects that are a Level1
Level1s == {1}

\* level.onUnload(), dispatched on the level's class
OnUnload(s, l) == IF l \in Level1s THEN Level1OnUnload(s, l) ELSE LevelOnUnload(s, l)

RECURSIVE AddEachActor(_, _, _)
\* an overriding onLoad(): this.addActor(new ...) for each actor of q
AddEachActor(s, l, q) ==
    IF q = <<>> THEN s ELSE AddEachActor(LevelAddActor(s, l, Head(q)), l, Tail(q))

LevelOnLoad(s, l, q) == AddEachActor(s, l, q)

\* loadLevel() that replaces this.level before it unloads the previous level
LoadLevel_AssignFirst(s, l, q) ==
    LET s1 == [s EXCEPT !.level = l]
        s2 == IF s.level # Undefined THEN OnUnload(s1, s.level) ELSE s1
        s3 == LevelOnLoad(s2, l, q)
        s4 == AdjustZIndexes(s3)
    IN  [s4 EXCEPT !.retRef = l]

\* loadLevel() whose unload step also clears the game's own registries
LoadLevel_DropsPersistant(s, l, q) ==
    LET s0 == IF s.level # Undefined THEN OnUnload(s, s.level) ELSE s
        s1 == RemoveAllPersistantWidgets(RemoveAllPersistantActors(s0))
        s2 == [s1 EXCEPT !.level = l]
        s3 == LevelOnLoad(s2, l, q)
        s4 == AdjustZIndexes(s3)
    IN  [s4 EXCEPT !.retRef = l]

LoadLevel(s, l, q) ==
    LET s1 == IF s.level # Undefined THEN OnUnload(s, s.level) ELSE s
        s2 == [s1 EXCEPT !.level = l]
        s3 == LevelOnLoad(s2, l, q)
        s4 == AdjustZIndexes(s3)
    IN  [s4 EXCEPT !.retRef = l]

\* loadLevel(l) of a level whose onLoad() calls this.game.loadLevel(n) for
\* another new level and then adds the actors of q to itself
LoadLevelFromOnLoad(s, l, n, q) ==
    LET s1 == IF s.level # Undefined THEN OnUnload(s, s.level) ELSE s
        s2 == [s1 EXCEPT !.level = l]
        s3 == AddEachActor(LoadLevel(s2, n, <<>>), l, q)
        s4 == AdjustZIndexes(s3)
    IN  [s4 EXCEPT !.retRef = l]

\* ------------------------------------------------------------------ classes
ActorClasses == {"Player", "Enemy", "ChildEnemy"}
WidgetClasses == {"TestWidget1", "TestWidget2"}
ScriptClasses == {"TestScript", "HealthScript"}

\* class X extends Y
SuperClass(c) ==
    CASE c = "ChildEnemy" -> "Enemy"
      [] c \in {"Player", "Enemy"} -> "Actor"
      [] c \in WidgetClasses -> "Widget"
      [] c \in ScriptClasses -> "Script"
      [] OTHER -> "Object"

\* instanceof that looks at the object's own class only
IsInstance_Exact(c, C) == c = C

RECURSIVE IsInstance(_, _)
\* an object of class c instanceof C
IsInstance(c, C) == c = C \/ (c # "Object" /\ IsInstance(SuperClass(c), C))

\* new Player(game), new Enemy(game), new ChildEnemy(game)
NewActorOfClass(s, a, c) == [s EXCEPT !.actorClass[a] = c]

\* new SomeActor(game) of a class whose update() override does `does`
NewActorWithUpdate(s, a, does) == [s EXCEPT !.onUpdate[a] = does]

\* new TestWidget1(game), new TestWidget2(game)
NewWidgetOfClass(s, w, c) == [s EXCEPT !.widgetClass[w] = c]

\* actor.scripts.push(new SomeScript(game, actor)): isEnabled starts true
PushScript(s, a, c) ==
    [s EXCEPT !.actorScripts[a] = Append(@, [class |-> c, isEnabled |-> TRUE])]

\* script.isEnabled = b
SetEnabled(s, a, i, b) == [s EXCEPT !.actorScripts[a][i].isEnabled = b]

\* ------------------------------------------------------------------ queries
\* array.filter((x) => x instanceof C)
FilterOfClass(q, classOf, C) ==
    SelectSeq(q, LAMBDA x : IsInstance(classOf[x], C))

RECURSIVE FirstOfClass(_, _, _)
\* for (const x of array) if (x instanceof C) return x; return undefined
FirstOfClass(q, classOf, C) ==
    IF q = <<>> THEN Undefined
    ELSE IF IsInstance(classOf[Head(q)], C) THEN Head(q)
    ELSE FirstOfClass(Tail(q), classOf, C)

GetActorsOfClass(s, l, C) ==
    [s EXCEPT !.retList = FilterOfClass(s.actors[l], s.actorClass, C)]
GetActorOfClass(s, l, C) ==
    [s EXCEPT !.retRef = FirstOfClass(s.actors[l], s.actorClass, C)]
GetPersistantActorsOfClass(s, C) ==
    [s EXCEPT !.retList = FilterOfClass(s.persistantActors, s.actorClass, C)]
GetPersistantActorOfClass(s, C) ==
    [s EXCEPT !.retRef = FirstOfClass(s.persistantActors, s.actorClass, C)]
GetAllWidgetsOfClass(s, l, C) ==
    [s EXCEPT !.retList = FilterOfClass(s.widgets[l], s.widgetClass, C)]
GetWidgetOfClass(s, l, C) ==
    [s EXCEPT !.retRef = FirstOfClass(s.widgets[l], s.widgetClass, C)]
GetPersistantWidgetsOfClass(s, C) ==
    [s EXCEPT !.retList = FilterOfClass(s.persistantWidgets, s.widgetClass, C)]
GetPersistantWidgetOfClass(s, C) ==
    [s EXCEPT !.retRef = FirstOfClass(s.persistantWidgets, s.widgetClass, C)]
GetAllSubWidgetsOfClass(s, p, C) ==
    [s EXCEPT !.retList = FilterOfClass(s.subWidgets[p], s.widgetClass, C)]
GetSubWidgetOfClass(s, p, C) ==
    [s EXCEPT !.retRef = FirstOfClass(s.subWidgets[p], s.widgetClass, C)]

\* getScript() that passes over disabled scripts whatever the flag says
GetScript_EnabledOnly(s, a, targetScript, ignoreDisabled) ==
    LET q == s.actorScripts[a]
        hits == {i \in 1..Len(q) :
                    IsInstance(q[i].class, targetScript) /\ q[i].isEnabled}
    IN  IF hits = {} THEN Undefined
        ELSE CHOOSE i \in hits : \A j \in hits : i <= j

\* getScript() that never looks at the enable flag
GetScript_AnyFlag(s, a, targetScript, ignoreDisabled) ==
    LET q == s.actorScripts[a]
        hits == {i \in 1..Len(q) : IsInstance(q[i].class, targetScript)}
    IN  IF hits = {} THEN Undefined
        ELSE CHOOSE i \in hits : \A j \in hits : i <= j

\* Actor.getScript: the position in actor.scripts of the script returned,
\* Undefined when the loop ends without one
GetScript(s, a, targetScript, ignoreDisabled) ==
    LET q == s.actorScripts[a]
        hits == {i \in 1..Len(q) :
                    /\ IsInstance(q[i].class, targetScript)
                    /\ (q[i].isEnabled \/ ~ignoreDisabled)}
    IN  IF hits = {} THEN Undefined
        ELSE CHOOSE i \in hits : \A j \in hits : i <= j

\* array.filter((actor) => actor.getScript(S) != undefined)
FilterImplementing(s, q, S) ==
    SelectSeq(q, LAMBDA a : GetScript(s, a, S, FALSE) # Undefined)

GetActorsImplementingScript(s, l, S) ==
    [s EXCEPT !.retList = FilterImplementing(s, s.actors[l], S)]
GetPersistantActorsImplementingScript(s, S) ==
    [s EXCEPT !.retList = FilterImplementing(s, s.persistantActors, S)]

\* --------------------------------------------------------------- the tick
RECURSIVE UpdateEachScript_EnabledOnly(_, _, _)
\* Actor.update that skips the scripts whose isEnabled is false
UpdateEachScript_EnabledOnly(s, a, i) ==
    IF i > Len(s.actorScripts[a]) THEN s
    ELSE UpdateEachScript_EnabledOnly(
             IF s.actorScripts[a][i].isEnabled
             THEN [s EXCEPT !.updates = Append(@, <<"script", a, i>>)]
             ELSE s, a, i + 1)

RECURSIVE UpdateEachScript(_, _, _)
\* for (const script of this.scripts) script.update(deltaTime)
UpdateEachScript(s, a, i) ==
    IF i > Len(s.actorScripts[a]) THEN s
    ELSE UpdateEachScript(
             [s EXCEPT !.updates = Append(@, <<"script", a, i>>)], a, i + 1)

\* the update() of the actor's class: super.update(deltaTime), which is
\* Actor.update, then what the override adds: nothing, someActor.remove(), or
\* this.game.loadLevel(new SomeLevel(this.game)) while there is a level
\* left to build
ActorUpdate(s, a) ==
    LET member == \/ Includes(s.persistantActors, a)
                  \/ \E l \in Levels : Includes(s.actors[l], a)
        s1 == [s EXCEPT !.updates = Append(@, <<"actor", a, 0>>),
                        !.atUpdate = Append(@, [actor |-> a, member |-> member])]
        s2 == UpdateEachScript(s1, a, 1)
        does == s.onUpdate[a]
    IN  CASE does[1] = "remove" -> ActorRemove(s2, does[2])
          [] does[1] = "loadLevel" /\ s2.level + 1 \in Levels ->
                 LoadLevel(s2, s2.level + 1, <<>>)
          [] OTHER -> s2

RECURSIVE UpdateEachActor_InPlace(_, _)
\* the loop over an array that removal splices in place: the members removed
\* meanwhile are gone from the rest, and when the actor just updated is gone
\* itself the next member slides into its index and is passed over
UpdateEachActor_InPlace(s, q) ==
    IF q = <<>> THEN s
    ELSE LET s1 == ActorUpdate(s, Head(q))
             in(a) == \/ Includes(s1.persistantActors, a)
                      \/ \E l \in Levels : Includes(s1.actors[l], a)
             rest == SelectSeq(Tail(q), in)
         IN  UpdateEachActor_InPlace(s1,
                 IF ~in(Head(q)) /\ rest # <<>> THEN Tail(rest) ELSE rest)

RECURSIVE UpdateEachActor(_, _)
UpdateEachActor(s, q) ==
    IF q = <<>> THEN s ELSE UpdateEachActor(ActorUpdate(s, Head(q)), Tail(q))

RECURSIVE WidgetUpdate(_, _)
RECURSIVE UpdateEachWidget(_, _)
UpdateEachWidget(s, q) ==
    IF q = <<>> THEN s ELSE UpdateEachWidget(WidgetUpdate(s, Head(q)), Tail(q))

\* Widget.update: the widget, then its sub-widgets
WidgetUpdate(s, w) ==
    UpdateEachWidget([s EXCEPT !.updates = Append(@, <<"widget", w, 0>>)],
                     s.subWidgets[w])

\* Level.update
LevelUpdate(s, l) == UpdateEachActor(s, s.actors[l])

\* the ticker callback with its loops in another order
Tick_PersistantFirst(s) ==
    LET s1 == UpdateEachActor(s, s.persistantActors)
        s2 == IF s1.level # Undefined THEN LevelUpdate(s1, s1.level) ELSE s1
    IN  UpdateEachWidget(s2, s2.persistantWidgets)

\* the ticker callback of Game.beginGame (the sounds are left out)
Tick(s) ==
    LET s1 == IF s.level # Undefined THEN LevelUpdate(s, s.level) ELSE s
        s2 == UpdateEachActor(s1, s1.persistantActors)
    IN  UpdateEachWidget(s2, s2.persistantWidgets)

\* ------------------------------------------------------------ pointer input
\* Game.pointToRectCollision: the borders of the rectangle are inside
PointToRectCollision(point, rect) ==
    /\ point.x - rect.x >= 0
    /\ point.y - rect.y >= 0
    /\ point.x - rect.x <= rect.xSize
    /\ point.y - rect.y <= rect.ySize

\* {x: this.x, y: this.y, xSize: this.xSize, ySize: this.ySize}
RectOf(o) == [x |-> o.x, y |-> o.y, xSize |-> o.xSize, ySize |-> o.ySize]

\* the window listeners of Game.start; the pointer is kept in stage
\* coordinates (stage at the origin, scale 1)
MouseDownEvent(s, b) == [s EXCEPT !.mouseDown[b + 1] = TRUE]
MouseUpEvent(s, b) == [s EXCEPT !.mouseDown[b + 1] = FALSE]
BlurEvent(s) == [s EXCEPT !.mouseDown = <<FALSE, FALSE, FALSE>>]
MouseMoveEvent(s, x, y) == [s EXCEPT !.mousePos = [x |-> x, y |-> y]]

\* a call of a callback the widget was given; the callbacks are the default
\* ones, which change nothing
Call(s, f) ==
    [s EXCEPT !.calls = Append(@, f),
              !.lastFired = IF f \in {"clickFunction", "releasedFunction"}
                            THEN f ELSE @]

\* ------------------------------------------------------------ WidgetButton
\* new WidgetButton(game, x, y, xSize, ySize, {disabled})
NewWidgetButton(x, y, xSize, ySize, disabled) ==
    [x |-> x, y |-> y, xSize |-> xSize, ySize |-> ySize,
     disabled |-> disabled, isClicked |-> FALSE]

\* widgetReference.disabled = b
SetDisabled(s, b) == [s EXCEPT !.button.disabled = b]

\* WidgetButton.update that looks at the pointer before the disabled flag
WidgetButtonUpdate_DisabledLast(s) ==
    LET s1 == Call(s, "updateFunction")
        hit == PointToRectCollision(s1.mousePos, RectOf(s1.button))
    IN  IF s1.button.isClicked
        THEN IF ~hit \/ ~s1.mouseDown[1]
             THEN [Call(s1, "releasedFunction") EXCEPT !.button.isClicked = FALSE]
             ELSE IF s1.button.disabled THEN s1 ELSE Call(s1, "heldFunction")
        ELSE IF hit /\ s1.mouseDown[1] /\ ~s1.button.disabled
             THEN [Call(s1, "clickFunction") EXCEPT !.button.isClicked = TRUE]
             ELSE s1

\* WidgetButton.update that calls clickFunction on every tick the button is
\* pressed
WidgetButtonUpdate_ClickRepeats(s) ==
    LET s1 == Call(s, "updateFunction")
        hit == PointToRectCollision(s1.mousePos, RectOf(s1.button))
    IN  IF s1.button.disabled THEN s1
        ELSE IF hit /\ s1.mouseDown[1]
             THEN [Call(s1, "clickFunction") EXCEPT !.button.isClicked = TRUE]
             ELSE IF s1.button.isClicked
                  THEN [Call(s1, "releasedFunction")
                            EXCEPT !.button.isClicked = FALSE]
                  ELSE s1

\* WidgetButton.update that releases only when the mouse button goes up
WidgetButtonUpdate_ReleaseOnUpOnly(s) ==
    LET s1 == Call(s, "updateFunction")
        hit == PointToRectCollision(s1.mousePos, RectOf(s1.button))
    IN  IF s1.button.disabled THEN s1
        ELSE IF s1.button.isClicked
             THEN IF ~s1.mouseDown[1]
                  THEN [Call(s1, "releasedFunction")
                            EXCEPT !.button.isClicked = FALSE]
                  ELSE Call(s1, "heldFunction")
             ELSE IF hit /\ s1.mouseDown[1]
                  THEN [Call(s1, "clickFunction") EXCEPT !.button.isClicked = TRUE]
                  ELSE s1

\* WidgetButton.update that leaves isClicked set when it releases
WidgetButtonUpdate_KeepsClicked(s) ==
    LET s1 == Call(s, "updateFunction")
        hit == PointToRectCollision(s1.mousePos, RectOf(s1.button))
    IN  IF s1.button.disabled THEN s1
        ELSE IF s1.button.isClicked
             THEN IF ~hit \/ ~s1.mouseDown[1]
                  THEN Call(s1, "releasedFunction")
                  ELSE Call(s1, "heldFunction")
             ELSE IF hit /\ s1.mouseDown[1]
                  THEN [Call(s1, "clickFunction") EXCEPT !.button.isClicked = TRUE]
                  ELSE s1

\* WidgetButton.update. The button has no sub-widgets, so super.update has
\* nothing to update; the redraw of the rectangle and of the label is left
\* out.
WidgetButtonUpdate(s) ==
    LET s1 == Call(s, "updateFunction")
        hit == PointToRectCollision(s1.mousePos, RectOf(s1.button))
    IN  IF s1.button.disabled THEN s1
        ELSE IF s1.button.isClicked
             THEN IF ~hit \/ ~s1.mouseDown[1]
                  THEN [Call(s1, "releasedFunction")
                            EXCEPT !.button.isClicked = FALSE]
                  ELSE Call(s1, "heldFunction")
             ELSE IF hit /\ s1.mouseDown[1]
                  THEN [Call(s1, "clickFunction") EXCEPT !.button.isClicked = TRUE]
                  ELSE s1

\* ------------------------------------------------------------- WidgetInput
\* the keys with e.key.length === 1 among Keys, and those matching /[0-9]/
Characters == {"a", "7"}
Digits == {"0", "1", "2", "3", "4", "5", "6", "7", "8", "9"}
Keys == Characters \cup
        {"Backspace", "Delete", "ArrowLeft", "ArrowRight", "Enter", "Shift"}

\* new WidgetInput(game, x, y, xSize, ySize, {numbersOnly}); value is kept
\* as the sequence of its characters
NewWidgetInput(x, y, xSize, ySize, numbersOnly) ==
    [x |-> x, y |-> y, xSize |-> xSize, ySize |-> ySize,
     numbersOnly |-> numbersOnly, value |-> <<>>, isFocused |-> FALSE,
     caretIndex |-> 0]

\* String.prototype.slice(start, end), String.prototype.slice(start)
Slice(v, start, end) ==
    LET n == Len(v)
        clamp(k) == IF k < 0 THEN (IF n + k < 0 THEN 0 ELSE n + k)
                    ELSE IF k > n THEN n ELSE k
    IN  SubSeq(v, clamp(start) + 1, clamp(end))
SliceFrom(v, start) == Slice(v, start, Len(v))

\* the keydown listener with a character key appended to the value instead
\* of inserted at the caret
KeyDown_InsertAtEnd(s, key) ==
    LET i == s.input
    IN  IF ~i.isFocused THEN s
        ELSE IF key = "Backspace" THEN
            IF i.caretIndex > 0
            THEN [s EXCEPT !.input.value = Slice(i.value, 0, i.caretIndex - 1)
                                            \o SliceFrom(i.value, i.caretIndex),
                           !.input.caretIndex = @ - 1]
            ELSE s
        ELSE IF key = "Delete" THEN
            IF i.caretIndex < Len(i.value)
            THEN [s EXCEPT !.input.value = Slice(i.value, 0, i.caretIndex)
                                            \o SliceFrom(i.value, i.caretIndex + 1)]
            ELSE s
        ELSE IF key = "ArrowLeft" THEN
            IF i.caretIndex > 0 THEN [s EXCEPT !.input.caretIndex = @ - 1] ELSE s
        ELSE IF key = "ArrowRight" THEN
            IF i.caretIndex < Len(i.value)
            THEN [s EXCEPT !.input.caretIndex = @ + 1] ELSE s
        ELSE IF key = "Enter" THEN [s EXCEPT !.input.isFocused = FALSE]
        ELSE IF key \in Characters THEN
            IF i.numbersOnly /\ key \notin Digits THEN s
            ELSE [s EXCEPT !.input.value = Append(i.value, key),
                           !.input.caretIndex = @ + 1]
        ELSE s

\* the keydown listener the constructor registers on window
KeyDown(s, key) ==
    LET i == s.input
    IN  IF ~i.isFocused THEN s
        ELSE IF key = "Backspace" THEN
            IF i.caretIndex > 0
            THEN [s EXCEPT !.input.value = Slice(i.value, 0, i.caretIndex - 1)
                                            \o SliceFrom(i.value, i.caretIndex),
                           !.input.caretIndex = @ - 1]
            ELSE s
        ELSE IF key = "Delete" THEN
            IF i.caretIndex < Len(i.value)
            THEN [s EXCEPT !.input.value = Slice(i.value, 0, i.caretIndex)
                                            \o SliceFrom(i.value, i.caretIndex + 1)]
            ELSE s
        ELSE IF key = "ArrowLeft" THEN
            IF i.caretIndex > 0 THEN [s EXCEPT !.input.caretIndex = @ - 1] ELSE s
        ELSE IF key = "ArrowRight" THEN
            IF i.caretIndex < Len(i.value)
            THEN [s EXCEPT !.input.caretIndex = @ + 1] ELSE s
        ELSE IF key = "Enter" THEN [s EXCEPT !.input.isFocused = FALSE]
        ELSE IF key \in Characters THEN
            IF i.numbersOnly /\ key \notin Digits THEN s
            ELSE [s EXCEPT !.input.value = Slice(i.value, 0, i.caretIndex)
                                            \o <<key>>
                                            \o SliceFrom(i.value, i.caretIndex),
                           !.input.caretIndex = @ + 1]
        ELSE s

\* the width the font gives a character
CharWidth(c) == IF c \in Digits THEN 1 ELSE 2

RECURSIVE MeasureTextWidth(_)
\* measureTextWidth: the width of the rendered text
MeasureTextWidth(text) ==
    IF text = <<>> THEN 0
    ELSE CharWidth(Head(text)) + MeasureTextWidth(Tail(text))

RECURSIVE GetCaretIndexFromClick_PastEnd(_, _, _)
\* getCaretIndexFromClick that returns the length plus one for a click to
\* the right of the text
GetCaretIndexFromClick_PastEnd(value, localX, i) ==
    IF i > Len(value) THEN Len(value) + 1
    ELSE IF MeasureTextWidth(Slice(value, 0, i)) >= localX THEN i - 1
    ELSE GetCaretIndexFromClick_PastEnd(value, localX, i + 1)

RECURSIVE GetCaretIndexFromClick(_, _, _)
\* getCaretIndexFromClick: its loop from index i on
GetCaretIndexFromClick(value, localX, i) ==
    IF i > Len(value) THEN Len(value)
    ELSE IF MeasureTextWidth(Slice(value, 0, i)) >= localX THEN i - 1
    ELSE GetCaretIndexFromClick(value, localX, i + 1)

\* WidgetInput.update that keeps the focus on a click outside the rectangle
WidgetInputUpdate_KeepsFocus(s) ==
    LET s1 == Call(s, "updateFunction")
        s2 == IF s1.mouseDown[1]
                 /\ PointToRectCollision(s1.mousePos, RectOf(s1.input))
              THEN LET s3 == IF ~s1.input.isFocused
                             THEN Call(s1, "onFocusedFunction") ELSE s1
                   IN  [s3 EXCEPT !.input.isFocused = TRUE,
                                  !.input.caretIndex =
                                      GetCaretIndexFromClick(s3.input.value,
                                          s3.mousePos.x - s3.input.x - LeftPadding, 1)]
              ELSE s1
    IN  IF s2.input.isFocused THEN Call(s2, "onFocusedFunction") ELSE s2

\* WidgetInput.update. The input has no sub-widgets, so super.update has
\* nothing to update; the redraw of the box, the text and the caret (with
\* blinkTimer) is left out.
WidgetInputUpdate(s) ==
    LET s1 == Call(s, "updateFunction")
        s2 == IF s1.mouseDown[1]
              THEN IF PointToRectCollision(s1.mousePos, RectOf(s1.input))
                   THEN LET s3 == IF ~s1.input.isFocused
                                  THEN Call(s1, "onFocusedFunction") ELSE s1
                        IN  [s3 EXCEPT !.input.isFocused = TRUE,
                                       !.input.caretIndex =
                                           GetCaretIndexFromClick(s3.input.value,
                                               s3.mousePos.x - s3.input.x - LeftPadding, 1)]
                   ELSE [s1 EXCEPT !.input.isFocused = FALSE]
              ELSE s1
    IN  IF s2.input.isFocused THEN Call(s2, "onFocusedFunction") ELSE s2

\* ------------------------------------------------------------ HealthScript
\* The numbers of the health script are exact fractions <<numerator,
\* denominator>> in lowest terms with a positive denominator; the arithmetic
\* below is that of finite numbers.
RECURSIVE Gcd(_, _)
Gcd(a, b) == IF b = 0 THEN a ELSE Gcd(b, a % b)

\* the number n / d, d > 0
Rat(n, d) ==
    LET g == Gcd(IF n < 0 THEN -n ELSE n, d)
    IN  <<n \div g, d \div g>>

\* p + q
Add(p, q) == Rat(p[1] * q[2] + q[1] * p[2], p[2] * q[2])

\* p - q
Sub(p, q) == Rat(p[1] * q[2] - q[1] * p[2], p[2] * q[2])

\* p * q
Mul(p, q) == Rat(p[1] * q[1], p[2] * q[2])

\* p <= q
Leq(p, q) == p[1] * q[2] <= q[1] * p[2]

\* Math.min(p, q)
MathMin(p, q) == IF Leq(p, q) THEN p ELSE q

\* Math.max(p, q)
MathMax(p, q) == IF Leq(p, q) THEN q ELSE p

RECURSIVE MathPow_ZeroBase(_, _)
\* a power that is 0 for base 0 whatever the exponent
MathPow_ZeroBase(p, n) ==
    IF p[1] = 0 THEN Rat(0, 1)
    ELSE IF n = 0 THEN Rat(1, 1) ELSE Mul(p, MathPow_ZeroBase(p, n - 1))

RECURSIVE MathPow(_, _)
\* Math.pow(p, n) for a whole n >= 0; Math.pow(x, 0) is 1 for every x, 0
\* included
MathPow(p, n) == IF n = 0 THEN Rat(1, 1) ELSE Mul(p, MathPow(p, n - 1))

\* new HealthScript(game, owningActor, health, onDeath, rollingSpeed); onDeath
\* is "default" (the default parameter, which removes the owning actor) or
\* "custom" (a function of the caller that changes nothing)
NewHealthScript(owningActor, health, onDeath, rollingSpeed) ==
    [owningActor |-> owningActor,
     maxHealth |-> Rat(health, 1),
     health |-> Rat(health, 1),
     rollingHealthSpeed |-> rollingSpeed,
     heldDamage |-> Rat(0, 1),
     onDeath |-> onDeath]

\* this.onDeath(deltaTime, this)
HealthScriptOnDeath(s, deltaTime) ==
    LET s1 == Call(s, "onDeath")
    IN  IF s.healthScript.onDeath = "default"
        THEN ActorRemove(s1, s.healthScript.owningActor)
        ELSE s1

\* an update that drains rate * deltaTime of the held damage
HealthScriptUpdate_LinearDrain(s, deltaTime) ==
    LET h == s.healthScript
        rate == MathMin(Rat(1, 1), MathMax(Rat(0, 1), h.rollingHealthSpeed))
        fraction == Mul(rate, Rat(deltaTime, 1))
        adjustAmount == Mul(h.heldDamage, fraction)
        health == MathMax(Rat(0, 1),
                          MathMin(h.maxHealth, Sub(h.health, adjustAmount)))
        s1 == [s EXCEPT !.healthScript.health = health,
                        !.healthScript.heldDamage = Sub(@, adjustAmount)]
    IN  IF Leq(health, Rat(0, 1)) THEN HealthScriptOnDeath(s1, deltaTime) ELSE s1

\* an update that calls onDeath only when the health reaches zero, not while
\* it stays there
HealthScriptUpdate_DeathOnce(s, deltaTime) ==
    LET h == s.healthScript
        rate == MathMin(Rat(1, 1), MathMax(Rat(0, 1), h.rollingHealthSpeed))
        fraction == Sub(Rat(1, 1), MathPow(Sub(Rat(1, 1), rate), deltaTime))
        adjustAmount == Mul(h.heldDamage, fraction)
        health == MathMax(Rat(0, 1),
                          MathMin(h.maxHealth, Sub(h.health, adjustAmount)))
        s1 == [s EXCEPT !.healthScript.health = health,
                        !.healthScript.heldDamage = Sub(@, adjustAmount)]
    IN  IF Leq(health, Rat(0, 1)) /\ ~Leq(h.health, Rat(0, 1))
        THEN HealthScriptOnDeath(s1, deltaTime) ELSE s1

\* an update that does not cap the health at maxHealth
HealthScriptUpdate_NoUpperClamp(s, deltaTime) ==
    LET h == s.healthScript
        rate == MathMin(Rat(1, 1), MathMax(Rat(0, 1), h.rollingHealthSpeed))
        fraction == Sub(Rat(1, 1), MathPow(Sub(Rat(1, 1), rate), deltaTime))
        adjustAmount == Mul(h.heldDamage, fraction)
        health == MathMax(Rat(0, 1), Sub(h.health, adjustAmount))
        s1 == [s EXCEPT !.healthScript.health = health,
                        !.healthScript.heldDamage = Sub(@, adjustAmount)]
    IN  IF Leq(health, Rat(0, 1)) THEN HealthScriptOnDeath(s1, deltaTime) ELSE s1

\* HealthScript.update(deltaTime), deltaTime a whole number of seconds
HealthScriptUpdate(s, deltaTime) ==
    LET h == s.healthScript
        rate == MathMin(Rat(1, 1), MathMax(Rat(0, 1), h.rollingHealthSpeed))
        fraction == Sub(Rat(1, 1), MathPow(Sub(Rat(1, 1), rate), deltaTime))
        adjustAmount == Mul(h.heldDamage, fraction)
        health == MathMax(Rat(0, 1),
                          MathMin(h.maxHealth, Sub(h.health, adjustAmount)))
        s1 == [s EXCEPT !.healthScript.health = health,
                        !.healthScript.heldDamage = Sub(@, adjustAmount)]
    IN  IF Leq(health, Rat(0, 1)) THEN HealthScriptOnDeath(s1, deltaTime) ELSE s1

\* HealthScript.takeDamage(amount)
TakeDamage(s, amount) ==
    [s EXCEPT !.healthScript.heldDamage = Add(@, amount)]

\* ---------------------------------------------------------------- actions
\* The state after a call.
Commit(r) ==
    /\ level' = r.level
    /\ persistantActors' = r.persistantActors
    /\ persistantWidgets' = r.persistantWidgets
    /\ actors' = r.actors
    /\ widgets' = r.widgets
    /\ actorLevel' = r.actorLevel
    /\ persistantActor' = r.persistantActor
    /\ actorZOrder' = r.actorZOrder
    /\ actorZIndex' = r.actorZIndex
    /\ widgetLevel' = r.widgetLevel
    /\ owningWidget' = r.owningWidget
    /\ subWidgets' = r.subWidgets
    /\ isPersistant' = r.isPersistant
    /\ widgetZOrder' = r.widgetZOrder
    /\ widgetZIndex' = r.widgetZIndex
    /\ stage' = r.stage
    /\ actorLife' = r.actorLife
    /\ widgetLife' = r.widgetLife
    /\ backgroundColour' = r.backgroundColour
    /\ actorClass' = r.actorClass
    /\ widgetClass' = r.widgetClass
    /\ actorScripts' = r.actorScripts
    /\ mousePos' = r.mousePos
    /\ mouseDown' = r.mouseDown
    /\ button' = r.button
    /\ input' = r.input
    /\ lastFired' = r.lastFired
    /\ onUpdate' = r.onUpdate
    /\ healthScript' = r.healthScript

Init ==
    /\ level = Undefined
    /\ persistantActors = <<>>
    /\ persistantWidgets = <<>>
    /\ actors = [l \in Levels |-> <<>>]
    /\ widgets = [l \in Levels |-> <<>>]
    /\ actorLevel = [a \in Actors |-> Undefined]
    /\ persistantActor = [a \in Actors |-> TRUE]
    /\ actorZOrder = [a \in Actors |-> 0]
    /\ actorZIndex = [a \in Actors |-> 0]
    /\ widgetLevel = [w \in Widgets |-> Undefined]
    /\ owningWidget = [w \in Widgets |-> Undefined]
    /\ subWidgets = [w \in Widgets |-> <<>>]
    /\ isPersistant = [w \in Widgets |-> FALSE]
    /\ widgetZOrder = [w \in Widgets |-> 0]
    /\ widgetZIndex = [w \in Widgets |-> 0]
    /\ stage = {}
    /\ actorLife = [a \in Actors |-> "new"]
    /\ widgetLife = [w \in Widgets |-> "new"]
    /\ backgroundColour = "#383838ff"
    /\ actorClass = [a \in Actors |-> "Actor"]
    /\ widgetClass = [w \in Widgets |-> "Widget"]
    /\ actorScripts = [a \in Actors |-> <<>>]
    /\ mousePos = [x |-> 0, y |-> 0]
    /\ mouseDown = <<FALSE, FALSE, FALSE>>
    /\ button = NewWidgetButton(1, 1, 2, 1, FALSE)
    /\ input = NewWidgetInput(0, 1, 8, 1, FALSE)
    /\ lastFired = "none"
    /\ onUpdate = [a \in Actors |-> <<"none", 0>>]
    /\ healthScript = NewHealthScript(1, 100, "default", Rat(1, 1))

Lowest(S) == {x \in S : \A y \in S : x <= y}

RECURSIVE FirstOf(_, _)
\* the n lowest members of S, ascending
FirstOf(S, n) ==
    IF n = 0 \/ S = {} THEN <<>>
    ELSE LET m == CHOOSE x \in S : \A y \in S : x <= y
         IN  <<m>> \o FirstOf(S \ {m}, n - 1)

\* Objects no lifecycle hook has run on.  `new X(game, ...)` yields the
\* lowest-numbered object not yet in use; a widget that was given
\* sub-widgets before being added anywhere is in use but still new.
NewActors == {a \in Actors : actorLife[a] = "new"}
NewWidgets == {w \in Widgets : widgetLife[w] = "new"}
NextNewActor == Lowest(NewActors)
NextNewWidget == Lowest({w \in NewWidgets : subWidgets[w] = <<>>})
BuiltWidgets == {w \in NewWidgets : subWidgets[w] # <<>>} \cup NextNewWidget
NextNewLevel == {level + 1} \cap Levels
ActiveLevel == {l \in Levels : l = level}

RECURSIVE OwnerChain(_, _)
\* w and the widgets above it, following owningWidget (n bounds the walk)
OwnerChain(w, n) ==
    IF n = 0 \/ owningWidget[w] = Undefined THEN {w}
    ELSE {w} \cup OwnerChain(owningWidget[w], n - 1)

\* game.loadLevel(new SomeLevel(game)), whose onLoad() adds n actors built
\* with the default zOrder
DoLoadLevel(lvls) ==
    \E l \in lvls, n \in 0..MaxOnLoad :
        /\ n <= Cardinality(NewActors)
        /\ Commit(LoadLevel(Cur, l, FirstOf(NewActors, n)))

DoLevelAddActor(lvls, cands, zs) ==
    \E l \in lvls, a \in cands, z \in zs :
        /\ actorLife[a] # "new" => z = actorZOrder[a]
        /\ Commit(LevelAddActor(NewActor(Cur, a, z), l, a))

DoLevelRemoveActor(lvls) ==
    \E l \in lvls, a \in Actors : Commit(LevelRemoveActor(Cur, l, a))

DoActorRemove ==
    \E a \in Actors : Commit(ActorRemove(Cur, a))

DoAddPersistantActor(cands, zs) ==
    \E a \in cands, z \in zs :
        /\ actorLife[a] # "new" => z = actorZOrder[a]
        /\ Commit(AddPersistantActor(NewActor(Cur, a, z), a))

DoRemovePersistantActor ==
    \E a \in Actors : Commit(RemovePersistantActor(Cur, a))

DoRemoveAllPersistantActors ==
    Commit(RemoveAllPersistantActors(Cur))

DoLevelAddWidget(lvls, cands, zs) ==
    \E l \in lvls, w \in cands, z \in zs :
        /\ widgetLife[w] # "new" => z = widgetZOrder[w]
        /\ Commit(LevelAddWidget(NewWidget(Cur, w, z), l, w))

DoLevelRemoveWidget(lvls) ==
    \E l \in lvls, w \in Widgets : Commit(LevelRemoveWidget(Cur, l, w))

DoAddPersistantWidget(cands, zs) ==
    \E w \in cands, z \in zs :
        /\ widgetLife[w] # "new" => z = widgetZOrder[w]
        /\ Commit(AddPersistantWidget(NewWidget(Cur, w, z), w))

DoRemovePersistantWidget ==
    \E w \in Widgets : Commit(RemovePersistantWidget(Cur, w))

DoRemoveAllPersistantWidgets ==
    Commit(RemoveAllPersistantWidgets(Cur))

\* parent.addSubWidget(new W(...)): the parent has not been removed, and the
\* child is newly built, so it is neither the parent nor above it
DoAddSubWidget ==
    \E p \in Widgets, w \in BuiltWidgets :
        /\ widgetLife[p] = "live" \/ p \in BuiltWidgets
        /\ w \notin OwnerChain(p, NumWidgets)
        /\ Commit(AddSubWidget(Cur, p, w))

DoRemoveSubWidget ==
    \E p \in Widgets, w \in Widgets :
        /\ widgetLife[p] # "removed"
        /\ Commit(RemoveSubWidget(Cur, p, w))

DoDeconstructWidget ==
    \E w \in Widgets :
        /\ widgetLife[w] = "live"
        /\ Commit(DeconstructWidget(Cur, w))

DoSetZOrder(zs) ==
    \E w \in Widgets, v \in zs :
        /\ widgetLife[w] = "live"
        /\ Commit(SetZOrder(Cur, w, v))

DoAdjustZIndexes ==
    Commit(AdjustZIndexes(Cur))

\* ---------------------------------------------------------- specifications
\* Ownership and lifecycle.  User code keeps the caller contract of the add
\* operations: what is added is a newly built entity, and level operations
\* go to game.level.  Everything is built with the default zOrder.
Next ==
    \/ DoLoadLevel(NextNewLevel)
    \/ DoLevelAddActor(ActiveLevel, NextNewActor, {0})
    \/ DoLevelRemoveActor(ActiveLevel)
    \/ DoActorRemove
    \/ DoAddPersistantActor(NextNewActor, {0})
    \/ DoRemovePersistantActor
    \/ DoRemoveAllPersistantActors
    \/ DoLevelAddWidget(ActiveLevel, BuiltWidgets, {0})
    \/ DoLevelRemoveWidget(ActiveLevel)
    \/ DoAddPersistantWidget(BuiltWidgets, {0})
    \/ DoRemovePersistantWidget
    \/ DoRemoveAllPersistantWidgets
    \/ DoAddSubWidget
    \/ DoRemoveSubWidget
    \/ DoDeconstructWidget

Spec == Init /\ [][Next]_vars

\* Render order.  The same contract, top-level widgets only, with every
\* zOrder of ZOrders handed to the constructors and to setZOrder.
ZWidgets == NextNewWidget \cap (1..NumZWidgets)

NextZ ==
    \/ DoLoadLevel(NextNewLevel)
    \/ DoLevelAddActor(ActiveLevel, NextNewActor, ActorZOrders)
    \/ DoLevelRemoveActor(ActiveLevel)
    \/ DoAddPersistantActor(NextNewActor, ActorZOrders)
    \/ DoRemovePersistantActor
    \/ DoRemoveAllPersistantActors
    \/ DoLevelAddWidget(ActiveLevel, ZWidgets, ZOrders)
    \/ DoLevelRemoveWidget(ActiveLevel)
    \/ DoAddPersistantWidget(ZWidgets, ZOrders)
    \/ DoRemovePersistantWidget
    \/ DoRemoveAllPersistantWidgets
    \/ DoDeconstructWidget
    \/ DoSetZOrder(ZOrders)
    \/ DoAdjustZIndexes

SpecZ == Init /\ [][NextZ]_vars

\* No caller contract: the add operations are handed any actor or widget,
\* members and removed ones included.  Registries stop growing at MaxMembers.
Capped ==
    /\ Len(persistantActors) <= MaxMembers
    /\ Len(persistantWidgets) <= MaxMembers
    /\ \A l \in Levels : Len(actors[l]) <= MaxMembers /\ Len(widgets[l]) <= MaxMembers

AnyWidgets == 1..NumAnyWidgets

NextAny ==
    \/ DoLoadLevel(NextNewLevel) /\ Capped'
    \/ DoLevelAddActor(ActiveLevel, Actors, {0}) /\ Capped'
    \/ DoLevelRemoveActor(ActiveLevel)
    \/ DoAddPersistantActor(Actors, {0}) /\ Capped'
    \/ DoRemovePersistantActor
    \/ DoLevelAddWidget(ActiveLevel, AnyWidgets, {0}) /\ Capped'
    \/ DoLevelRemoveWidget(ActiveLevel)
    \/ DoAddPersistantWidget(AnyWidgets, {0}) /\ Capped'
    \/ DoRemovePersistantWidget

SpecAny == Init /\ [][NextAny]_vars

\* ----------------------------------------- classes, scripts and the tick
\* Actors and widgets are built from the test classes and the ticker fires.
\* One level, no removal.
DoNewActorOfClass(cs) ==
    \E a \in NextNewActor, c \in cs :
        /\ actorClass[a] = "Actor"
        /\ Commit(NewActorOfClass(Cur, a, c))

DoNewWidgetOfClass(cs) ==
    \E w \in NextNewWidget, c \in cs :
        /\ widgetClass[w] = "Widget"
        /\ Commit(NewWidgetOfClass(Cur, w, c))

DoPushScript(cs) ==
    \E a \in Actors, c \in cs :
        /\ actorLife[a] = "live"
        /\ Len(actorScripts[a]) < MaxScripts
        /\ Commit(PushScript(Cur, a, c))

DoSetEnabled ==
    \E a \in Actors : \E i \in 1..Len(actorScripts[a]) : \E b \in BOOLEAN :
        Commit(SetEnabled(Cur, a, i, b))

DoTick == Commit(Tick(Cur))

DoLevelUpdate(lvls) == \E l \in lvls : Commit(LevelUpdate(Cur, l))

QWidgets == BuiltWidgets \cap (1..NumQWidgets)

NextQ ==
    \/ DoLoadLevel(NextNewLevel \cap {1})
    \/ DoNewActorOfClass(ActorClasses)
    \/ DoNewWidgetOfClass(WidgetClasses)
    \/ DoLevelAddActor(ActiveLevel, NextNewActor, {0})
    \/ DoAddPersistantActor(NextNewActor, {0})
    \/ DoLevelAddWidget(ActiveLevel, QWidgets, {0})
    \/ DoAddPersistantWidget(QWidgets, {0})
    \/ DoAddSubWidget
    \/ DoTick
    \/ DoLevelUpdate(ActiveLevel)

SpecQ == Init /\ [][NextQ]_vars

\* Actors only: scripts are pushed and switched on and off, the ticker fires.
NextS ==
    \/ DoLoadLevel(NextNewLevel)
    \/ DoLevelAddActor(ActiveLevel, NextNewActor, {0})
    \/ DoAddPersistantActor(NextNewActor, {0})
    \/ DoPushScript(ScriptClasses)
    \/ DoSetEnabled
    \/ DoTick

SpecS == Init /\ [][NextS]_vars

\* ------------------------------------------------- the button and the input
\* the pointer positions tried on the button (x 1..3, y 1..2) and on the
\* input (x 0..8, y 1..2)
ButtonXs == 0..4
ButtonYs == 0..2
InputXs == {4, 6, 7, 8, 9}
InputYs == {0, 1}
MouseButtons == 0..2

DoMouseMove(xs, ys) ==
    \E x \in xs, y \in ys : Commit(MouseMoveEvent(Cur, x, y))

DoMouseDown(bs) == \E b \in bs : Commit(MouseDownEvent(Cur, b))

DoMouseUp(bs) == \E b \in bs : Commit(MouseUpEvent(Cur, b))

DoBlur == Commit(BlurEvent(Cur))

DoSetDisabled == \E b \in BOOLEAN : Commit(SetDisabled(Cur, b))

DoWidgetButtonUpdate == Commit(WidgetButtonUpdate(Cur))

DoNewWidgetInput ==
    \E numbersOnly \in BOOLEAN :
        Commit([Cur EXCEPT !.input = NewWidgetInput(0, 1, 8, 1, numbersOnly)])

DoKeyDown(keys) ==
    \E key \in keys :
        /\ key \in Characters => Len(input.value) < MaxValueLen
        /\ Commit(KeyDown(Cur, key))

DoWidgetInputUpdate == Commit(WidgetInputUpdate(Cur))

NextB ==
    \/ DoMouseMove(ButtonXs, ButtonYs)
    \/ DoMouseDown(MouseButtons)
    \/ DoMouseUp(MouseButtons)
    \/ DoBlur
    \/ DoSetDisabled
    \/ DoWidgetButtonUpdate

SpecB == Init /\ [][NextB]_vars

NextI ==
    \/ DoMouseMove(InputXs, InputYs)
    \/ DoMouseDown({0})
    \/ DoMouseUp({0})
    \/ DoNewWidgetInput
    \/ DoKeyDown(Keys)
    \/ DoWidgetInputUpdate

SpecI == Init /\ [][NextI]_vars

\* ------------------------------------------------- calls from callbacks
\* what an update() override does: nothing, remove an actor (itself or
\* another), load the next level
UpdateOverrides ==
    {<<"none", 0>>, <<"loadLevel", 0>>} \cup {<<"remove", b>> : b \in Actors}

DoNewActorWithUpdate ==
    \E a \in NextNewActor, does \in UpdateOverrides \ {<<"none", 0>>} :
        /\ onUpdate[a] = <<"none", 0>>
        /\ Commit(NewActorWithUpdate(Cur, a, does))

DoLoadLevelFromOnLoad ==
    \E l \in NextNewLevel, n \in 0..MaxOnLoad :
        /\ l + 1 \in Levels
        /\ n <= Cardinality(NewActors)
        /\ Commit(LoadLevelFromOnLoad(Cur, l, l + 1, FirstOf(NewActors, n)))

NextR ==
    \/ DoLoadLevel(NextNewLevel)
    \/ DoLoadLevelFromOnLoad
    \/ DoNewActorWithUpdate
    \/ DoLevelAddActor(ActiveLevel, NextNewActor, {0})
    \/ DoAddPersistantActor(NextNewActor, {0})
    \/ DoTick
    \/ DoLevelUpdate(ActiveLevel)

SpecR == Init /\ [][NextR]_vars

\* ---- the health script of an actor: construction, damage and updates
\* the rollingSpeed values of the runs: below, at the ends of, inside and
\* above [0, 1]
RollingSpeeds == {Rat(-1, 1), Rat(0, 1), Rat(4, 5), Rat(1, 1), Rat(2, 1)}
\* the amounts of takeDamage(amount): damage and healing
DamageAmounts == {Rat(50, 1), Rat(-50, 1)}
\* the deltaTime values of update(deltaTime): a paused host, one and two seconds
DeltaTimes == 0..2

DoNewHealthScript ==
    \E a \in Lowest(Actors), health \in {5, 100}, onDeath \in {"default", "custom"},
       rollingSpeed \in RollingSpeeds :
        Commit([Cur EXCEPT !.healthScript =
                    NewHealthScript(a, health, onDeath, rollingSpeed)])

DoTakeDamage ==
    \E amount \in DamageAmounts :
        LET r == TakeDamage(Cur, amount)
        IN  /\ Leq(Rat(-MaxHeldDamage, 1), r.healthScript.heldDamage)
            /\ Leq(r.healthScript.heldDamage, Rat(MaxHeldDamage, 1))
            /\ Commit(r)

DoHealthScriptUpdate ==
    \E deltaTime \in DeltaTimes :
        LET r == HealthScriptUpdate(Cur, deltaTime)
        IN  /\ r.healthScript.health[2] <= MaxDenominator
            /\ r.healthScript.heldDamage[2] <= MaxDenominator
            /\ Commit(r)

NextH ==
    \/ DoNewHealthScript
    \/ DoTakeDamage
    \/ DoHealthScriptUpdate
    \/ DoLoadLevel(NextNewLevel)
    \/ DoLevelAddActor(ActiveLevel, NextNewActor, {0})
    \/ DoAddPersistantActor(NextNewActor, {0})

SpecH == Init /\ [][NextH]_vars

\* ------------------------------------------------------------ vocabulary
\* the registries as sets, in a program state s
RegisteredActors(s) == Range(s.persistantActors) \cup Range(LevelActorsOf(s))
TopLevelWidgets(s) == Range(s.persistantWidgets) \cup Range(LevelWidgetsOf(s))

\* the largest zOrder of a non-empty set of actors
MaxZOrder(s, A) == CHOOSE m \in {s.actorZOrder[a] : a \in A} :
                       \A a \in A : s.actorZOrder[a] <= m

InPersistantActors(a) == Includes(persistantActors, a)
InLevelActors(a) == level # Undefined /\ Includes(actors[level], a)

\* who holds widget w
Owners(w) ==
    {<<"game", 0>> : x \in {1} \cap {IF Includes(persistantWidgets, w) THEN 1 ELSE 0}}
    \cup {<<"level", 0>> : x \in {1} \cap
            {IF level # Undefined /\ Includes(widgets[level], w) THEN 1 ELSE 0}}
    \cup {<<"widget", p>> : p \in {q \in Widgets : Includes(subWidgets[q], w)}}

RECURSIVE Below(_, _)
\* the widgets reached from w by following subWidgets at most n times
Below(w, n) ==
    IF n = 0 THEN {}
    ELSE Range(subWidgets[w]) \cup
         UNION {Below(c, n - 1) : c \in Range(subWidgets[w])}

NoDuplicates(q) == \A i, j \in 1..Len(q) : i # j => q[i] # q[j]

\* a call that did nothing: false returned, no hook run, every collection as before
NoEffect(r) ==
    /\ r.retBool = FALSE
    /\ r.hooks = <<>>
    /\ r.persistantActors = persistantActors
    /\ r.persistantWidgets = persistantWidgets
    /\ r.actors = actors
    /\ r.widgets = widgets
    /\ r.subWidgets = subWidgets

\* -------------------------------------------------------------- claims
\* C1: under Spec, every actor that has been added and not yet removed is
\* in exactly one of game.persistantActors and game.level.actors.
C1_ExactlyOneRegistry ==
    \A a \in Actors :
        actorLife[a] = "live" => (InPersistantActors(a) # InLevelActors(a))

\* C1 witness: a second level is loaded; the actor of the first level was
\* removed by the unload and a live actor sits in the new level or the game.
C1_Witness ==
    /\ level = 2
    /\ \E a \in Actors : actorLife[a] = "removed" /\ actorLevel[a] = 1
    /\ \E a \in Actors : actorLife[a] = "live"

\* C2: under Spec, a live actor is in game.persistantActors iff its
\* persistantActor flag is true and its level is undefined, and is in
\* level l's actors iff the flag is false and its level is l.
C2_BackReferences ==
    \A a \in Actors :
        actorLife[a] = "live" =>
            /\ InPersistantActors(a)
                  <=> (persistantActor[a] /\ actorLevel[a] = Undefined)
            /\ \A l \in Levels :
                  Includes(actors[l], a)
                      <=> (~persistantActor[a] /\ actorLevel[a] = l)

\* C2 witness: a persistent actor and a level actor are live together.
C2_Witness ==
    \E a, b \in Actors :
        /\ actorLife[a] = "live" /\ InPersistantActors(a)
        /\ actorLife[b] = "live" /\ InLevelActors(b)

\* C3: under Spec, every live widget is held by exactly one of
\* game.persistantWidgets, the active level's widgets and one widget's
\* subWidgets, and no widget is below itself.
C3_WidgetForest ==
    /\ \A w \in Widgets : widgetLife[w] = "live" => Cardinality(Owners(w)) = 1
    /\ \A w \in Widgets : w \notin Below(w, NumWidgets)

\* C3 witness: a live sub-widget of a live top-level widget, while a widget
\* removed before exists.
C3_Witness ==
    /\ \E w \in Widgets : widgetLife[w] = "removed"
    /\ \E p, c \in Widgets :
          /\ widgetLife[p] = "live" /\ widgetLife[c] = "live"
          /\ Cardinality(Owners(p)) = 1
          /\ c \in Range(subWidgets[p])

\* C4: with any arguments, no actor occurs twice in a level's actors or in
\* game.persistantActors and no widget twice in a level's widgets or in
\* game.persistantWidgets.
C4_NoDuplicates ==
    /\ NoDuplicates(persistantActors)
    /\ NoDuplicates(persistantWidgets)
    /\ \A l \in Levels : NoDuplicates(actors[l]) /\ NoDuplicates(widgets[l])

\* zIndexes of state s are the ones adjustZIndexes derives from s
Fresh(s) ==
    LET r == AdjustZIndexes(s)
    IN  /\ \A a \in RegisteredActors(s) : s.actorZIndex[a] = r.actorZIndex[a]
        /\ \A w \in TopLevelWidgets(s) : s.widgetZIndex[w] = r.widgetZIndex[w]

\* state s carries the zIndexes of the rule "actor: zOrder, top-level
\* widget: M + 1 + zOrder", M the largest zOrder of the registered actors
FollowsRule(s) ==
    LET M == MaxZOrder(s, RegisteredActors(s))
    IN  /\ \A a \in RegisteredActors(s) : s.actorZIndex[a] = s.actorZOrder[a]
        /\ \A w \in TopLevelWidgets(s) :
              s.widgetZIndex[w] = M + 1 + s.widgetZOrder[w]

\* every top-level widget of s is drawn strictly above every actor of s
WidgetsAbove(s, W) ==
    \A w \in W : \A a \in RegisteredActors(s) :
        s.widgetZIndex[w] > s.actorZIndex[a]

C6_ZIndexRule ==
    LET r == AdjustZIndexes(Cur)
    IN  RegisteredActors(r) # {} => FollowsRule(r)

\* C6 witness: level actors of zOrder 0 and 2 have zIndex 0 and 2, a level
\* widget of zOrder 0 has 3 and a persistent widget of zOrder 2 has 5.
C6_Witness ==
    /\ level # Undefined
    /\ \E a, b \in Range(LevelActorsOf(Cur)) :
          /\ actorZOrder[a] = 0 /\ actorZIndex[a] = 0
          /\ actorZOrder[b] = 2 /\ actorZIndex[b] = 2
    /\ \E w \in Range(LevelWidgetsOf(Cur)) :
          widgetZOrder[w] = 0 /\ widgetZIndex[w] = 3
    /\ \E w \in Range(persistantWidgets) :
          widgetZOrder[w] = 2 /\ widgetZIndex[w] = 5

\* C7: under SpecZ, after every population-changing operation the zIndex of
\* every registered actor and top-level widget is the one adjustZIndexes
\* derives from the current population: no stale zIndex is left behind.
C7_NoStaleZIndex == Fresh(Cur)

\* C8: under SpecZ, right after adjustZIndexes with no actor anywhere, every
\* top-level widget has a finite zIndex, one fixed finite base above its zOrder.
C8_FiniteWithoutActors ==
    LET r == AdjustZIndexes(Cur)
    IN  RegisteredActors(r) = {} =>
            /\ \A w \in TopLevelWidgets(r) : IsFinite(r.widgetZIndex[w])
            /\ \A w, u \in TopLevelWidgets(r) :
                  r.widgetZIndex[w] - r.widgetZOrder[w]
                      = r.widgetZIndex[u] - r.widgetZOrder[u]

\* C9: under SpecZ, setZOrder(v) on a top-level widget sets its zOrder to v
\* and recomputes every zIndex; with an actor present the widget's zIndex is
\* the largest actor zOrder + 1 + v.
C9_SetZOrderRecomputes ==
    \A w \in TopLevelWidgets(Cur) : \A v \in ZOrders :
        LET r == SetZOrder(Cur, w, v)
        IN  /\ r.widgetZOrder[w] = v
            /\ Fresh(r)
            /\ RegisteredActors(Cur) # {} =>
                  /\ r.widgetZIndex[w] = MaxZOrder(Cur, RegisteredActors(Cur)) + 1 + v
                  /\ FollowsRule(r)

\* C9 witness: an actor of zOrder 2 is the highest and setZOrder(2) moves a
\* top-level widget of zOrder 0 and zIndex 3 to zIndex 5.
C9_Witness ==
    /\ RegisteredActors(Cur) # {}
    /\ MaxZOrder(Cur, RegisteredActors(Cur)) = 2
    /\ \E w \in TopLevelWidgets(Cur) :
          /\ widgetZOrder[w] = 0 /\ widgetZIndex[w] = 3
          /\ SetZOrder(Cur, w, 2).widgetZIndex[w] = 5

\* C10: under Spec, Level.removeActor, Game.removePersistantActor,
\* Level.removeWidget, Game.removePersistantWidget and Widget.removeSubWidget
\* called with a non-member return false, run no hook and change no collection.
C10_NonMemberRemoveIsNoOp ==
    /\ \A l \in Levels : \A a \in Actors :
          ~Includes(actors[l], a) => NoEffect(LevelRemoveActor(Cur, l, a))
    /\ \A a \in Actors :
          ~Includes(persistantActors, a) => NoEffect(RemovePersistantActor(Cur, a))
    /\ \A l \in Levels : \A w \in Widgets :
          ~Includes(widgets[l], w) => NoEffect(LevelRemoveWidget(Cur, l, w))
    /\ \A w \in Widgets :
          ~Includes(persistantWidgets, w) => NoEffect(RemovePersistantWidget(Cur, w))
    /\ \A p \in Widgets : \A w \in Widgets :
          ~Includes(subWidgets[p], w) => NoEffect(RemoveSubWidget(Cur, p, w))

\* C10 witness: an actor and a widget that were removed before, and a live
\* widget held elsewhere, are handed to the remove operations, which refuse.
C10_Witness ==
    /\ level # Undefined
    /\ \E a \in Actors :
          /\ actorLife[a] = "removed"
          /\ ~LevelRemoveActor(Cur, level, a).retBool
          /\ ~RemovePersistantActor(Cur, a).retBool
    /\ \E w \in Widgets :
          /\ widgetLife[w] = "removed"
          /\ ~LevelRemoveWidget(Cur, level, w).retBool
          /\ ~RemovePersistantWidget(Cur, w).retBool
    /\ \E p, w \in Widgets :
          /\ widgetLife[w] = "live" /\ widgetLife[p] = "live"
          /\ Owners(w) = {<<"level", 0>>}
          /\ ~RemoveSubWidget(Cur, p, w).retBool

\* a removal of member a from list q: one onRemove, run while a was still
\* listed; afterwards q without a, the others in their order, one fewer
RemovedOne(r, a, before, seenList, after) ==
    /\ r.retBool = TRUE
    /\ r.hooks = << <<"onRemove", a>> >>
    /\ Len(r.seen) = 1
    /\ Includes(seenList, a)
    /\ after = Without(before, a)
    /\ Len(after) = Len(before) - 1
    /\ ~Includes(after, a)

Subtree(w) == {w} \cup Below(w, NumWidgets)

\* the result r of removing widget w: one onDeconstruct per widget of w's
\* subtree, descendants before ancestors, w last; the subtree's subWidgets
\* lists empty and w in no list
CascadeOf(r, w) ==
    /\ Len(r.hooks) = Cardinality(Subtree(w))
    /\ \A u \in Subtree(w) :
          \E i \in 1..Len(r.hooks) : r.hooks[i] = <<"onDeconstruct", u>>
    /\ \A i, j \in 1..Len(r.hooks) :
          r.hooks[i][2] \in Below(r.hooks[j][2], NumWidgets) => i < j
    /\ r.hooks[Len(r.hooks)] = <<"onDeconstruct", w>>
    /\ \A u \in Subtree(w) : r.subWidgets[u] = <<>>
    /\ ~Includes(r.persistantWidgets, w)
    /\ \A l \in Levels : ~Includes(r.widgets[l], w)
    /\ \A p \in Widgets : ~Includes(r.subWidgets[p], w)

\* C12: under Spec, Level.removeWidget, Game.removePersistantWidget,
\* Widget.removeSubWidget and Widget.deconstructWidget of a held widget run
\* onDeconstruct exactly once for every widget of its subtree, descendants
\* before ancestors and the removed widget last; afterwards the subtree's
\* subWidgets lists are empty and the widget is in no owner's list.
C12_WidgetCascade ==
    /\ \A l \in Levels : \A w \in Range(widgets[l]) :
          CascadeOf(LevelRemoveWidget(Cur, l, w), w)
    /\ \A w \in Range(persistantWidgets) :
          CascadeOf(RemovePersistantWidget(Cur, w), w)
    /\ \A p \in Widgets : \A w \in Range(subWidgets[p]) :
          CascadeOf(RemoveSubWidget(Cur, p, w), w)
    /\ \A w \in Widgets :
          widgetLife[w] = "live" => CascadeOf(DeconstructWidget(Cur, w), w)

\* C12 witness: a level widget holds a sub-widget that holds a sub-widget,
\* and removing the level widget deconstructs the innermost first.
C12_Witness ==
    /\ level # Undefined
    /\ \E p \in Range(LevelWidgetsOf(Cur)) :
          \E c \in Range(subWidgets[p]) : \E g \in Range(subWidgets[c]) :
              LevelRemoveWidget(Cur, level, p).hooks
                  = << <<"onDeconstruct", g>>, <<"onDeconstruct", c>>,
                       <<"onDeconstruct", p>> >>

IsRemovalHook(h) == h[1] \in {"onRemove", "onDeconstruct"}

\* C13: under Spec, Level.onUnload removes every actor and then every
\* top-level widget of the level: each onRemove runs before any
\* onDeconstruct, every one of these hooks runs while game.level is still
\* the unloading level (also when Game.loadLevel is what unloads), and
\* afterwards the level's actors and widgets are both empty.
C13_UnloadOrder ==
    level # Undefined =>
        LET r == LevelOnUnload(Cur, level)
        IN  /\ \A a \in Range(actors[level]) :
                  \E i \in 1..Len(r.hooks) : r.hooks[i] = <<"onRemove", a>>
            /\ \A w \in Range(widgets[level]) :
                  \E i \in 1..Len(r.hooks) : r.hooks[i] = <<"onDeconstruct", w>>
            /\ \A i, j \in 1..Len(r.hooks) :
                  (r.hooks[i][1] = "onRemove" /\ r.hooks[j][1] = "onDeconstruct")
                      => i < j
            /\ \A i \in 1..Len(r.hooks) : r.seen[i].level = level
            /\ r.actors[level] = <<>>
            /\ r.widgets[level] = <<>>
            /\ \A l \in Levels :
                  LET n == LoadLevel(Cur, l, <<>>)
                  IN  \A i \in 1..Len(n.hooks) :
                          IsRemovalHook(n.hooks[i]) => n.seen[i].level = level

\* C13 witness: the loaded level holds an actor and a widget, and unloading
\* it runs the actor's onRemove first and a widget's onDeconstruct last.
C13_Witness ==
    /\ level # Undefined
    /\ actors[level] # <<>>
    /\ widgets[level] # <<>>
    /\ LET r == LevelOnUnload(Cur, level)
       IN  /\ r.hooks[1] = <<"onRemove", actors[level][1]>>
           /\ r.hooks[Len(r.hooks)][1] = "onDeconstruct"

\* C14: under Spec, Game.loadLevel(next) with a level loaded runs the
\* previous level's onUnload to completion (every previous actor's onRemove,
\* the background colour of an overriding onUnload) before game.level is
\* replaced and before next.onLoad adds an actor; it returns next, game.level
\* is next and next's actors are exactly the ones added to next.
C14_LoadLevelOrder ==
    level # Undefined =>
        \A l \in Levels \ {level} : \A n \in 0..Cardinality(NewActors) :
            LET q == FirstOf(NewActors, n)
                r == LoadLevel(Cur, l, q)
                H == 1..Len(r.hooks)
            IN  /\ \A a \in Range(actors[level]) :
                      \E i \in H : r.hooks[i] = <<"onRemove", a>>
                /\ \A i \in H :
                      IsRemovalHook(r.hooks[i]) => r.seen[i].level = level
                /\ \A i, j \in H :
                      (IsRemovalHook(r.hooks[i]) /\ r.hooks[j][1] = "onCreate")
                          => i < j
                /\ \A j \in H :
                      r.hooks[j][1] = "onCreate" =>
                          /\ r.seen[j].level = l
                          /\ r.seen[j].actors[level] = <<>>
                          /\ r.seen[j].widgets[level] = <<>>
                          /\ level \in Level1s
                                => r.seen[j].backgroundColour = "#0f0f0f"
                /\ level \in Level1s => r.backgroundColour = "#0f0f0f"
                /\ r.level = l
                /\ r.retRef = l
                /\ r.actors[l] = q

\* C14 witness: Level1 held an actor and was replaced by the next level,
\* whose onLoad added an actor; the background colour is Level1's.
C14_Witness ==
    /\ level = 2
    /\ backgroundColour = "#0f0f0f"
    /\ \E a \in Actors : actorLife[a] = "removed" /\ actorLevel[a] = 1
    /\ \E a \in Range(actors[2]) : actorLife[a] = "live" /\ actorLevel[a] = 2

\* the persistent widgets and everything below them
PersistantSubtrees == UNION {Subtree(w) : w \in Range(persistantWidgets)}

\* C15: under Spec, Game.loadLevel leaves game.persistantActors and
\* game.persistantWidgets as they were, members and order, and runs no
\* removal hook on a persistent actor or on a persistent widget or anything
\* below one, whatever the previous and the next level are.
C15_LoadLevelKeepsPersistant ==
    \A l \in Levels : \A n \in 0..Cardinality(NewActors) :
        LET r == LoadLevel(Cur, l, FirstOf(NewActors, n))
        IN  /\ r.persistantActors = persistantActors
            /\ r.persistantWidgets = persistantWidgets
            /\ \A i \in 1..Len(r.hooks) :
                  /\ r.hooks[i][1] = "onRemove"
                        => r.hooks[i][2] \notin Range(persistantActors)
                  /\ r.hooks[i][1] = "onDeconstruct"
                        => r.hooks[i][2] \notin PersistantSubtrees
            /\ \A w \in PersistantSubtrees : r.subWidgets[w] = subWidgets[w]

\* C15 witness: a level with an actor and a widget is loaded next to a
\* persistent actor and a persistent widget, and loading the next level
\* removes the level's two and keeps the game's two.
C15_Witness ==
    /\ level = 1
    /\ actors[1] # <<>>
    /\ widgets[1] # <<>>
    /\ persistantActors # <<>>
    /\ persistantWidgets # <<>>
    /\ LET r == LoadLevel(Cur, 2, <<>>)
       IN  /\ Len(r.hooks) >= 2
           /\ r.persistantActors = persistantActors
           /\ r.persistantWidgets = persistantWidgets

\* an entry of the update trace is an update of an actor of A (or of one of
\* its scripts)
UpdatesActorOf(u, A) == u[1] \in {"actor", "script"} /\ u[2] \in A

\* C16: under SpecQ, within a tick every update of an actor of the active
\* level comes before the update of any persistent actor and of any
\* persistent widget, and persistent actors come before persistent widgets;
\* every one of them is updated once.
C16_TickOrder ==
    LET U == Tick(Cur).updates
        I == 1..Len(U)
        LA == Range(LevelActorsOf(Cur))
        PA == Range(persistantActors)
    IN  /\ \A i, j \in I :
              (UpdatesActorOf(U[i], LA)
                  /\ (UpdatesActorOf(U[j], PA) \/ U[j][1] = "widget")) => i < j
        /\ \A i, j \in I :
              (UpdatesActorOf(U[i], PA) /\ U[j][1] = "widget") => i < j
        /\ \A a \in LA \cup PA :
              Cardinality({i \in I : U[i] = <<"actor", a, 0>>}) = 1
        /\ \A w \in PersistantSubtrees :
              Cardinality({i \in I : U[i] = <<"widget", w, 0>>}) = 1
        /\ \A i \in I : U[i][1] = "widget" => U[i][2] \in PersistantSubtrees

\* C16 witness: a level actor, a persistent actor and a persistent widget
\* with a sub-widget are registered and a tick updates them in that order.
C16_Witness ==
    \E a, b \in Actors : \E w, c \in Widgets :
        /\ LevelActorsOf(Cur) = <<a>>
        /\ persistantActors = <<b>>
        /\ persistantWidgets = <<w>>
        /\ subWidgets[w] = <<c>>
        /\ Tick(Cur).updates = << <<"actor", a, 0>>, <<"actor", b, 0>>,
                                  <<"widget", w, 0>>, <<"widget", c, 0>> >>

\* C17: under SpecQ, Level.update(dt) calls update(dt) on every widget of
\* the level's widgets list as well as on every actor, so a widget added
\* with Level.addWidget is updated by the next Level.update.
C17_LevelUpdatesWidgets ==
    \A l \in Levels :
        LET U == LevelUpdate(Cur, l).updates
        IN  /\ \A a \in Range(actors[l]) :
                  \E i \in 1..Len(U) : U[i] = <<"actor", a, 0>>
            /\ \A w \in Range(widgets[l]) :
                  \E i \in 1..Len(U) : U[i] = <<"widget", w, 0>>

\* the classes an object of class c is an instance of, read off the extends
\* chain
ClassesOf(c) ==
    {c, SuperClass(c), SuperClass(SuperClass(c)),
     SuperClass(SuperClass(SuperClass(c)))} \ {"Object"}

\* the position of member e in list q
PositionIn(q, e) == CHOOSE i \in 1..Len(q) : q[i] = e

\* all is exactly the members of reg that are a C, in the order of reg, and
\* one is its first element, Undefined when there is none
SelectionOf(all, one, reg, classOf, C) ==
    /\ \A i \in 1..Len(all) :
          Includes(reg, all[i]) /\ C \in ClassesOf(classOf[all[i]])
    /\ \A x \in Range(reg) : C \in ClassesOf(classOf[x]) => Includes(all, x)
    /\ NoDuplicates(all)
    /\ \A i, j \in 1..Len(all) :
          i < j => PositionIn(reg, all[i]) < PositionIn(reg, all[j])
    /\ one = IF all = <<>> THEN Undefined ELSE all[1]

\* a call that left every registry as it was
Untouched(r) ==
    /\ r.persistantActors = persistantActors
    /\ r.persistantWidgets = persistantWidgets
    /\ r.actors = actors
    /\ r.widgets = widgets
    /\ r.subWidgets = subWidgets

\* the pair of results of a get-all and a get-one query on registry reg
QueryPairOK(rAll, rOne, reg, classOf, C) ==
    /\ SelectionOf(rAll.retList, rOne.retRef, reg, classOf, C)
    /\ Untouched(rAll)
    /\ Untouched(rOne)

\* C18: under SpecQ, for each registry and each class C the get-all query
\* returns exactly the members that are a C or a subclass of C, in
\* registration order, the get-one query returns the first of them or
\* undefined, and neither changes a registry.
C18_TypedQueries ==
    /\ \A C \in ActorClasses \cup {"Actor"} :
          /\ \A l \in Levels :
                QueryPairOK(GetActorsOfClass(Cur, l, C), GetActorOfClass(Cur, l, C),
                            actors[l], actorClass, C)
          /\ QueryPairOK(GetPersistantActorsOfClass(Cur, C),
                         GetPersistantActorOfClass(Cur, C),
                         persistantActors, actorClass, C)
    /\ \A C \in WidgetClasses \cup {"Widget"} :
          /\ \A l \in Levels :
                QueryPairOK(GetAllWidgetsOfClass(Cur, l, C), GetWidgetOfClass(Cur, l, C),
                            widgets[l], widgetClass, C)
          /\ QueryPairOK(GetPersistantWidgetsOfClass(Cur, C),
                         GetPersistantWidgetOfClass(Cur, C),
                         persistantWidgets, widgetClass, C)
          /\ \A p \in Widgets :
                QueryPairOK(GetAllSubWidgetsOfClass(Cur, p, C),
                            GetSubWidgetOfClass(Cur, p, C),
                            subWidgets[p], widgetClass, C)

\* C18 witness: the level holds a ChildEnemy and then an Enemy; the Enemy
\* query returns both in that order, the Player query nothing, and a widget
\* holds a TestWidget2 after a TestWidget1.
C18_Witness ==
    /\ level # Undefined
    /\ \E a, b \in Actors :
          /\ actors[level] = <<a, b>>
          /\ actorClass[a] = "ChildEnemy" /\ actorClass[b] = "Enemy"
          /\ GetActorsOfClass(Cur, level, "Enemy").retList = <<a, b>>
          /\ GetActorOfClass(Cur, level, "Enemy").retRef = a
          /\ GetActorOfClass(Cur, level, "Player").retRef = Undefined
    /\ \E p, u, v \in Widgets :
          /\ subWidgets[p] = <<u, v>>
          /\ widgetClass[u] = "TestWidget1" /\ widgetClass[v] = "TestWidget2"
          /\ GetSubWidgetOfClass(Cur, p, "TestWidget2").retRef = v


\* the state a creation hook runs in: the present state with the registries
\* as the i-th hook of call r found them
AtHook(r, i) ==
    [Cur EXCEPT !.persistantActors = r.seen[i].persistantActors,
                !.persistantWidgets = r.seen[i].persistantWidgets,
                !.actors = r.seen[i].actors,
                !.widgets = r.seen[i].widgets,
                !.subWidgets = r.seen[i].subWidgets]

\* every run of entity e's creation hook in call r finds list(state) without e
HiddenInHook(r, hook, e, list(_)) ==
    \A i \in 1..Len(r.hooks) :
        r.hooks[i] = <<hook, e>> => ~Includes(list(AtHook(r, i)), e)

\* C19: under Spec, an actor or widget that is being added is not a member of
\* the registry, and is not returned by the typed query on it, while its
\* creation hook (onCreate / onConstruct) runs.
C19_HiddenUntilCreated ==
    /\ \A a \in NextNewActor :
          /\ \A l \in ActiveLevel :
                LET r == LevelAddActor(Cur, l, a)
                    members(s) == s.actors[l]
                    query(s) == GetActorsOfClass(s, l, actorClass[a]).retList
                IN  /\ HiddenInHook(r, "onCreate", a, members)
                    /\ HiddenInHook(r, "onCreate", a, query)
          /\ LET r == AddPersistantActor(Cur, a)
                 members(s) == s.persistantActors
                 query(s) == GetPersistantActorsOfClass(s, actorClass[a]).retList
             IN  /\ HiddenInHook(r, "onCreate", a, members)
                 /\ HiddenInHook(r, "onCreate", a, query)
    /\ \A w \in NextNewWidget :
          /\ \A l \in ActiveLevel :
                LET r == LevelAddWidget(Cur, l, w)
                    members(s) == s.widgets[l]
                    query(s) == GetAllWidgetsOfClass(s, l, widgetClass[w]).retList
                IN  /\ HiddenInHook(r, "onConstruct", w, members)
                    /\ HiddenInHook(r, "onConstruct", w, query)
          /\ LET r == AddPersistantWidget(Cur, w)
                 members(s) == s.persistantWidgets
                 query(s) == GetPersistantWidgetsOfClass(s, widgetClass[w]).retList
             IN  /\ HiddenInHook(r, "onConstruct", w, members)
                 /\ HiddenInHook(r, "onConstruct", w, query)
          /\ \A p \in Widgets \ {w} :
                widgetLife[p] = "live" =>
                    LET r == AddSubWidget(Cur, p, w)
                        members(s) == s.subWidgets[p]
                        query(s) == GetAllSubWidgetsOfClass(s, p, widgetClass[w]).retList
                    IN  /\ HiddenInHook(r, "onConstruct", w, members)
                        /\ HiddenInHook(r, "onConstruct", w, query)


\* actor a carries a script that is an S, enabled or not
Implements(a, S) ==
    \E i \in 1..Len(actorScripts[a]) : S \in ClassesOf(actorScripts[a][i].class)

\* all is exactly the members of reg that implement S, in the order of reg
ImplementingOf(all, reg, S) ==
    /\ \A i \in 1..Len(all) : Includes(reg, all[i]) /\ Implements(all[i], S)
    /\ \A a \in Range(reg) : Implements(a, S) => Includes(all, a)
    /\ NoDuplicates(all)
    /\ \A i, j \in 1..Len(all) :
          i < j => PositionIn(reg, all[i]) < PositionIn(reg, all[j])

\* C20: under SpecS, Level.getActorsImplementingScript(S) and
\* Game.getPersistantActorsImplementingScript(S) return, in registration
\* order, exactly the owned actors with at least one script that is an S or a
\* subclass of S, whether that script is enabled or disabled.
C20_ImplementingScript ==
    \A S \in ScriptClasses \cup {"Script"} :
        /\ \A l \in Levels :
              ImplementingOf(GetActorsImplementingScript(Cur, l, S).retList,
                             actors[l], S)
        /\ ImplementingOf(GetPersistantActorsImplementingScript(Cur, S).retList,
                          persistantActors, S)

\* C20 witness: of two persistent actors, the first has a HealthScript that
\* is disabled and no other, the second only a TestScript; the HealthScript
\* query returns the first alone and the Script query both in order.
C20_Witness ==
    \E a, b \in Actors :
        /\ persistantActors = <<a, b>>
        /\ actorScripts[a] = <<[class |-> "HealthScript", isEnabled |-> FALSE]>>
        /\ actorScripts[b] = <<[class |-> "TestScript", isEnabled |-> TRUE]>>
        /\ GetPersistantActorsImplementingScript(Cur, "HealthScript").retList = <<a>>
        /\ GetPersistantActorsImplementingScript(Cur, "Script").retList = <<a, b>>


Wanted(a, i, T, ignoreDisabled) ==
    /\ T \in ClassesOf(actorScripts[a][i].class)
    /\ ignoreDisabled => actorScripts[a][i].isEnabled

\* C22: under SpecS, Actor.getScript(T, ignoreDisabled) returns the first
\* script in list order that is an instance of T or of a subclass and, when
\* ignoreDisabled is true, is enabled; it returns undefined when there is
\* none; with ignoreDisabled false the enable flag does not matter.
C22_GetScript ==
    \A a \in Actors : \A T \in ScriptClasses \cup {"Script"} :
        \A ignoreDisabled \in BOOLEAN :
            LET r == GetScript(Cur, a, T, ignoreDisabled)
                I == 1..Len(actorScripts[a])
            IN  IF \E i \in I : Wanted(a, i, T, ignoreDisabled)
                THEN /\ r \in I
                     /\ Wanted(a, r, T, ignoreDisabled)
                     /\ \A j \in 1..(r - 1) : ~Wanted(a, j, T, ignoreDisabled)
                ELSE r = Undefined

\* C22 witness: an actor with a disabled TestScript followed by an enabled
\* one: the default call returns the first, the call that ignores disabled
\* scripts the second, and a HealthScript query returns undefined.
C22_Witness ==
    \E a \in Actors :
        /\ actorScripts[a] = <<[class |-> "TestScript", isEnabled |-> FALSE],
                               [class |-> "TestScript", isEnabled |-> TRUE]>>
        /\ GetScript(Cur, a, "TestScript", FALSE) = 1
        /\ GetScript(Cur, a, "TestScript", TRUE) = 2
        /\ GetScript(Cur, a, "HealthScript", FALSE) = Undefined


\* ----------------------------------------------------------- WidgetButton
\* point p is in the rectangle of o, borders included
Within(p, o) ==
    /\ o.x <= p.x /\ p.x <= o.x + o.xSize
    /\ o.y <= p.y /\ p.y <= o.y + o.ySize

\* the pointer is on the button
OnButton == Within(mousePos, button)

\* how often callback f was called in call r
CallsOf(r, f) == Cardinality({i \in 1..Len(r.calls) : r.calls[i] = f})

\* C23: under SpecB, a tick of a button that is not disabled and not clicked,
\* with the pointer inside the rectangle (borders included) and the primary
\* button down, calls clickFunction once and sets isClicked; a tick under
\* the same conditions with isClicked set calls heldFunction once and not
\* clickFunction, and leaves isClicked set, so this repeats on every further
\* such tick.
C23_ClickThenHeld ==
    LET r == WidgetButtonUpdate(Cur)
    IN  (~button.disabled /\ OnButton /\ mouseDown[1]) =>
            /\ r.button.isClicked
            /\ CallsOf(r, "releasedFunction") = 0
            /\ IF button.isClicked
               THEN CallsOf(r, "heldFunction") = 1 /\ CallsOf(r, "clickFunction") = 0
               ELSE CallsOf(r, "clickFunction") = 1 /\ CallsOf(r, "heldFunction") = 0

\* C23 witness: the button was clicked by a tick with the pointer on its
\* right border, and the next tick under the same conditions calls
\* heldFunction.
C23_Witness ==
    /\ ~button.disabled /\ button.isClicked /\ mouseDown[1]
    /\ mousePos.x = button.x + button.xSize
    /\ OnButton
    /\ WidgetButtonUpdate(Cur).calls = <<"updateFunction", "heldFunction">>


\* C24: under SpecB, a tick of a button that is not disabled and is clicked,
\* with the pointer outside the rectangle or the primary button up, calls
\* releasedFunction once, calls neither heldFunction nor clickFunction and
\* clears isClicked; a tick of a button that is not clicked never calls
\* releasedFunction, so it is not called again before a new click.
C24_ReleaseOnce ==
    LET r == WidgetButtonUpdate(Cur)
    IN  /\ (~button.disabled /\ button.isClicked /\ (~OnButton \/ ~mouseDown[1])) =>
              /\ CallsOf(r, "releasedFunction") = 1
              /\ CallsOf(r, "heldFunction") = 0
              /\ CallsOf(r, "clickFunction") = 0
              /\ ~r.button.isClicked
        /\ ~button.isClicked => CallsOf(r, "releasedFunction") = 0

\* C24 witness: a clicked button whose pointer has left the rectangle with
\* the primary button still down is released by the tick.
C24_Witness ==
    /\ ~button.disabled /\ button.isClicked /\ mouseDown[1] /\ ~OnButton
    /\ WidgetButtonUpdate(Cur).calls = <<"updateFunction", "releasedFunction">>
    /\ ~WidgetButtonUpdate(Cur).button.isClicked

\* C25: under SpecB, a tick of a disabled button calls none of
\* clickFunction, heldFunction and releasedFunction and leaves isClicked as
\* it was, wherever the pointer is and whatever buttons are down; every
\* tick, disabled or not, calls updateFunction once.
C25_DisabledButton ==
    LET r == WidgetButtonUpdate(Cur)
    IN  /\ CallsOf(r, "updateFunction") = 1
        /\ button.disabled =>
              /\ r.calls = <<"updateFunction">>
              /\ r.button.isClicked = button.isClicked

\* C25 witness: a disabled button that is still clicked, with the pointer
\* off it; the tick calls updateFunction alone and the button stays clicked.
C25_Witness ==
    /\ button.disabled /\ button.isClicked /\ ~OnButton
    /\ WidgetButtonUpdate(Cur).calls = <<"updateFunction">>
    /\ WidgetButtonUpdate(Cur).button.isClicked


\* ------------------------------------------------------------ WidgetInput
\* the pointer is on the input
OnInput == Within(mousePos, input)

\* C26: under SpecI, after a tick with the primary button down the input is
\* focused if the pointer is inside its rectangle and unfocused if it is
\* outside; a tick with the primary button up leaves isFocused as it was; an
\* Enter keydown leaves the input unfocused.
C26_FocusMachine ==
    LET r == WidgetInputUpdate(Cur)
    IN  /\ mouseDown[1] => (r.input.isFocused <=> OnInput)
        /\ ~mouseDown[1] => (r.input.isFocused <=> input.isFocused)
        /\ ~KeyDown(Cur, "Enter").input.isFocused

\* C26 witness: a focused input holding text, with the primary button down
\* outside its rectangle, is unfocused by the tick, and Enter would unfocus
\* it too.
C26_Witness ==
    /\ input.isFocused /\ input.value # <<>>
    /\ mouseDown[1] /\ ~OnInput
    /\ ~WidgetInputUpdate(Cur).input.isFocused
    /\ KeyDown(Cur, "Enter").input = [input EXCEPT !.isFocused = FALSE]

\* C27: under SpecI, a tick that leaves the input focused calls
\* onFocusedFunction exactly once, the tick in which it becomes focused
\* included, and a tick that leaves it unfocused does not call it.
C27_OnFocusedOncePerTick ==
    LET r == WidgetInputUpdate(Cur)
    IN  CallsOf(r, "onFocusedFunction") = IF r.input.isFocused THEN 1 ELSE 0

\* C28: under SpecI, onFocusedFunction is called in the tick in which the
\* input becomes focused and in no tick that starts with the input focused.
C28_OnFocusedFirstFrameOnly ==
    LET r == WidgetInputUpdate(Cur)
    IN  /\ (~input.isFocused /\ r.input.isFocused) =>
              CallsOf(r, "onFocusedFunction") >= 1
        /\ input.isFocused => CallsOf(r, "onFocusedFunction") = 0


\* sequence v with c put in front of position k + 1
InsertAt(v, k, c) ==
    [j \in 1..(Len(v) + 1) |->
        IF j <= k THEN v[j] ELSE IF j = k + 1 THEN c ELSE v[j - 1]]

\* sequence v without its element at position k
RemoveAt(v, k) ==
    [j \in 1..(Len(v) - 1) |-> IF j < k THEN v[j] ELSE v[j + 1]]

\* the reference function of key handling on (value, caretIndex) for a
\* focused input
Reference(value, caretIndex, key, numbersOnly) ==
    CASE key \in Characters ->
            IF numbersOnly /\ key \notin Digits
            THEN <<value, caretIndex>>
            ELSE <<InsertAt(value, caretIndex, key), caretIndex + 1>>
      [] key = "Backspace" ->
            IF caretIndex = 0 THEN <<value, caretIndex>>
            ELSE <<RemoveAt(value, caretIndex), caretIndex - 1>>
      [] key = "Delete" ->
            IF caretIndex = Len(value) THEN <<value, caretIndex>>
            ELSE <<RemoveAt(value, caretIndex + 1), caretIndex>>
      [] key = "ArrowLeft" ->
            <<value, IF caretIndex = 0 THEN 0 ELSE caretIndex - 1>>
      [] key = "ArrowRight" ->
            <<value, IF caretIndex = Len(value) THEN caretIndex ELSE caretIndex + 1>>
      [] OTHER -> <<value, caretIndex>>

\* C29: under SpecI, a keydown on a focused input changes (value,
\* caretIndex) as the reference function says: a character is inserted at
\* the caret, which advances (nothing changes for a non-digit when
\* numbersOnly is set), Backspace deletes before the caret and moves it back,
\* Delete removes at the caret and keeps it, the arrows move the caret by
\* one within [0, length]; on an unfocused input no keydown changes value or
\* caretIndex.
C29_KeyHandling ==
    \A key \in Keys :
        LET r == KeyDown(Cur, key).input
        IN  <<r.value, r.caretIndex>> =
                IF input.isFocused
                THEN Reference(input.value, input.caretIndex, key, input.numbersOnly)
                ELSE <<input.value, input.caretIndex>>

\* C29 witness: a focused input holding "a7" with the caret between the two
\* characters: a character goes in between them, Backspace removes the "a"
\* and Delete the "7".
C29_Witness ==
    /\ input.isFocused /\ ~input.numbersOnly
    /\ input.value = <<"a", "7">> /\ input.caretIndex = 1
    /\ KeyDown(Cur, "a").input.value = <<"a", "a", "7">>
    /\ KeyDown(Cur, "a").input.caretIndex = 2
    /\ KeyDown(Cur, "Backspace").input.value = <<"7">>
    /\ KeyDown(Cur, "Delete").input.value = <<"a">>

\* C30: under SpecI, after any interleaving of keydown events and update
\* ticks, ticks that place the caret from a click included,
\* 0 <= caretIndex <= value.length.
C30_CaretInRange ==
    /\ 0 <= input.caretIndex
    /\ input.caretIndex <= Len(input.value)

\* C30 witness: a value of two characters with the caret at its start, and a
\* click to the right of the text that puts the caret at the end.
C30_Witness ==
    /\ Len(input.value) = 2 /\ input.caretIndex = 0
    /\ mouseDown[1] /\ OnInput
    /\ WidgetInputUpdate(Cur).input.caretIndex = Len(input.value)


\* ---------------------------------------------------------- display root
\* no widget of set W is on the stage of state s
OffStage(s, W) == \A u \in W : <<"widget", u>> \notin s.stage

\* C38: under Spec, an actor or widget is a child of game.app.stage exactly
\* from its creation hook until its removal hook: every entity in a registry
\* or below a registered widget is on the stage, and after a removal
\* operation, a widget cascade or a level unload returns, neither the removed
\* entity nor any widget of its subtree is on the stage.
C38_DisplayRoot ==
    /\ \A a \in Actors : <<"actor", a>> \in stage <=> actorLife[a] = "live"
    /\ \A w \in Widgets : <<"widget", w>> \in stage <=> widgetLife[w] = "live"
    /\ \A a \in RegisteredActors(Cur) : <<"actor", a>> \in stage
    /\ \A w \in TopLevelWidgets(Cur) :
          \A u \in Subtree(w) : <<"widget", u>> \in stage
    /\ \A a \in RegisteredActors(Cur) :
          <<"actor", a>> \notin ActorRemove(Cur, a).stage
    /\ \A l \in Levels : \A w \in Range(widgets[l]) :
          OffStage(LevelRemoveWidget(Cur, l, w), Subtree(w))
    /\ \A w \in Range(persistantWidgets) :
          OffStage(RemovePersistantWidget(Cur, w), Subtree(w))
    /\ \A p \in Widgets : \A w \in Range(subWidgets[p]) :
          OffStage(RemoveSubWidget(Cur, p, w), Subtree(w))
    /\ \A l \in NextNewLevel :
          LET r == LoadLevel(Cur, l, <<>>)
          IN  /\ \A a \in Range(LevelActorsOf(Cur)) : <<"actor", a>> \notin r.stage
              /\ \A w \in Range(LevelWidgetsOf(Cur)) : OffStage(r, Subtree(w))

\* C38 witness: the second level is loaded with an actor on the stage, the
\* first level's actor is off it, and a removed widget and a live sub-widget
\* of a registered widget exist.
C38_Witness ==
    /\ level = 2
    /\ \E a, b \in Actors :
          /\ actorLevel[a] = 1 /\ actorLife[a] = "removed"
          /\ <<"actor", a>> \notin stage
          /\ Includes(actors[2], b) /\ <<"actor", b>> \in stage
    /\ \E w, p, c \in Widgets :
          /\ widgetLife[w] = "removed" /\ <<"widget", w>> \notin stage
          /\ p \in TopLevelWidgets(Cur) /\ Includes(subWidgets[p], c)
          /\ <<"widget", c>> \in stage


\* ------------------------------------------------------ button, over a run
\* C37: under SpecB, over any sequence of ticks, pointer events and
\* assignments of disabled, clickFunction is called only when the last of
\* clickFunction and releasedFunction called was releasedFunction or none
\* was, releasedFunction and heldFunction are called only when it was
\* clickFunction, and a tick calls at most one of the three.
C37_ClickReleaseAlternate ==
    LET r == WidgetButtonUpdate(Cur)
    IN  /\ CallsOf(r, "clickFunction") + CallsOf(r, "heldFunction")
              + CallsOf(r, "releasedFunction") <= 1
        /\ CallsOf(r, "clickFunction") = 1 => lastFired # "clickFunction"
        /\ CallsOf(r, "releasedFunction") = 1 => lastFired = "clickFunction"
        /\ CallsOf(r, "heldFunction") = 1 => lastFired = "clickFunction"

\* C37 witness: the button was clicked and released before, and is clicked
\* again by the tick.
C37_Witness ==
    /\ lastFired = "releasedFunction"
    /\ WidgetButtonUpdate(Cur).calls = <<"updateFunction", "clickFunction">>


\* ------------------------------------------------- calls from callbacks
\* how often Actor.update was called on actor a in call r
UpdatesOf(r, a) ==
    Cardinality({i \in 1..Len(r.updates) : r.updates[i] = <<"actor", a, 0>>})

\* the loop of call r over collection `before`, which it left as `after`,
\* passed over no actor still in the collection and updated no actor twice
LoopSound(r, before, after) ==
    /\ \A a \in Actors : UpdatesOf(r, a) <= 1
    /\ \A a \in Range(before) \cap Range(after) : UpdatesOf(r, a) = 1

\* C34: under SpecR, when an actor's update removes itself or another actor
\* from the collection being iterated by Level.update or by the
\* persistent-actor loop of the tick, every actor still in the collection
\* when the loop ends was updated once and no actor was updated twice.
C34_RemovalWhileIterating ==
    /\ \A l \in ActiveLevel :
          LET r == LevelUpdate(Cur, l)
          IN  LoopSound(r, actors[l], r.actors[l])
    /\ LET r == UpdateEachActor(Cur, persistantActors)
       IN  LoopSound(r, persistantActors, r.persistantActors)
    /\ \A a \in Actors : UpdatesOf(Tick(Cur), a) <= 1

\* C34 witness: the first of two actors of the level removes itself in its
\* update; the second is still in the level afterwards and was updated.
C34_Witness ==
    /\ level # Undefined
    /\ \E a, b \in Actors :
          /\ actors[level] = <<a, b>>
          /\ onUpdate[a] = <<"remove", a>>
          /\ LevelUpdate(Cur, level).actors[level] = <<b>>
          /\ LevelUpdate(Cur, level).updates[2] = <<"actor", b, 0>>

\* C35: under SpecR, the tick never calls update on an actor that a removal
\* operation has taken out of its registry, not even later in the tick in
\* which another actor's update removed it.
C35_NoUpdateAfterRemoval ==
    LET r == Tick(Cur)
    IN  \A i \in 1..Len(r.atUpdate) : r.atUpdate[i].member

\* C36: under SpecR, when loadLevel is called from an actor's update during
\* a tick or from the onLoad of a level being loaded, then after all calls
\* have returned game.level is the level of the loadLevel call started last
\* and no other level holds actors or widgets.
C36_NestedLoadLevel ==
    /\ \A k \in Levels \ {level} : actors[k] = <<>> /\ widgets[k] = <<>>
    /\ \A l \in NextNewLevel : \A n \in 0..Cardinality(NewActors) :
          l + 1 \in Levels =>
              LET r == LoadLevelFromOnLoad(Cur, l, l + 1, FirstOf(NewActors, n))
              IN  /\ r.level = l + 1
                  /\ \A k \in Levels \ {r.level} :
                        r.actors[k] = <<>> /\ r.widgets[k] = <<>>
    /\ LET r == Tick(Cur)
       IN  \A k \in Levels \ {r.level} : r.actors[k] = <<>> /\ r.widgets[k] = <<>>

\* ------------------------------------------------------------ HealthScript
\* the amount an update(deltaTime) call takes off the held damage
Drained(deltaTime) ==
    Sub(healthScript.heldDamage,
        HealthScriptUpdate(Cur, deltaTime).healthScript.heldDamage)

\* p < q
Less(p, q) == ~Leq(q, p)

RECURSIVE ToThe(_, _)
\* p to the power n, n a natural number
ToThe(p, n) == IF n = 0 THEN Rat(1, 1) ELSE Mul(p, ToThe(p, n - 1))

\* x clamped to [lo, hi]
Clamped(x, lo, hi) == IF Less(x, lo) THEN lo ELSE IF Less(hi, x) THEN hi ELSE x

\* the fields of the health script after update(deltaTime) in the state in hand
AfterUpdate(deltaTime) == HealthScriptUpdate(Cur, deltaTime).healthScript

\* C31: under SpecH, update(dt) with r the rollingHealthSpeed clamped to [0, 1]
\* takes adjust = heldDamage * (1 - (1 - r)^dt) off the held damage and sets
\* the health to health - adjust clamped to [0, maxHealth]; with maxHealth 100,
\* r = 0.8 and takeDamage(50), update(1) gives held damage 10 and health 60,
\* and a further update(2) gives held damage 0.4 and health 50.4.
C31_ExponentialDrain ==
    /\ \A dt \in DeltaTimes :
        LET r == Clamped(healthScript.rollingHealthSpeed, Rat(0, 1), Rat(1, 1))
            adjust == Mul(healthScript.heldDamage,
                          Sub(Rat(1, 1), ToThe(Sub(Rat(1, 1), r), dt)))
        IN  /\ AfterUpdate(dt).heldDamage = Sub(healthScript.heldDamage, adjust)
            /\ AfterUpdate(dt).health =
                   Clamped(Sub(healthScript.health, adjust),
                           Rat(0, 1), healthScript.maxHealth)
    /\ ( /\ healthScript.maxHealth = Rat(100, 1)
         /\ healthScript.health = Rat(100, 1)
         /\ healthScript.rollingHealthSpeed = Rat(4, 5)
         /\ healthScript.heldDamage = Rat(0, 1) ) =>
        LET s1 == HealthScriptUpdate(TakeDamage(Cur, Rat(50, 1)), 1)
            s2 == HealthScriptUpdate(s1, 2)
        IN  /\ s1.healthScript.heldDamage = Rat(10, 1)
            /\ s1.healthScript.health = Rat(60, 1)
            /\ s2.healthScript.heldDamage = Rat(2, 5)
            /\ s2.healthScript.health = Rat(252, 5)

\* C31 witness: the run of the example has been made: a script of maxHealth
\* 100 and rolling speed 0.8 took 50 damage and was updated by 1 and then by 2
\* seconds, which leaves held damage 0.4 and health 50.4.
C31_Witness ==
    /\ healthScript.maxHealth = Rat(100, 1)
    /\ healthScript.rollingHealthSpeed = Rat(4, 5)
    /\ healthScript.heldDamage = Rat(2, 5)
    /\ healthScript.health = Rat(252, 5)

Registered(s, a) ==
    \/ Includes(s.persistantActors, a)
    \/ \E l \in Levels : Includes(s.actors[l], a)

\* C33: under SpecH, an update that leaves the health at or below 0 calls
\* onDeath in that update, also when the health was there already; with the
\* default onDeath the owning actor is in no registry (level actors or
\* persistent actors) when the update returns.
C33_OnDeathWhileDead ==
    \A dt \in DeltaTimes :
        LET r == HealthScriptUpdate(Cur, dt)
        IN  Leq(r.healthScript.health, Rat(0, 1)) =>
                /\ r.calls = <<"onDeath">>
                /\ healthScript.onDeath = "default" =>
                       ~Registered(r, healthScript.owningActor)

\* C33 witness: the health is at 0 from an earlier update, the script has the
\* default onDeath and its owning actor is registered; the next update calls
\* onDeath again and the actor leaves its registry.
C33_Witness ==
    \E dt \in DeltaTimes :
        LET r == HealthScriptUpdate(Cur, dt)
        IN  /\ Leq(healthScript.health, Rat(0, 1))
            /\ healthScript.onDeath = "default"
            /\ Registered(Cur, healthScript.owningActor)
            /\ r.calls = <<"onDeath">>
            /\ ~Registered(r, healthScript.owningActor)

====
